---- MODULE Spec2Model ----
(***************************************************************************)
(* Cache-aside layer with request coalescing of the external-adapter       *)
(* runtime: the coalescing waiter (getWithCoalescing), the Redis backing   *)
(* store client (RedisCache) and the cache-aside orchestrator (fetch).     *)
(***************************************************************************)
EXTENDS Integers, Sequences, FiniteSets, TLC

(***************************************************************************)
(* Bounds of the model                                                     *)
(***************************************************************************)
\* largest retry budget handed to getWithCoalescing
MaxRetries == 3
\* retry budgets below zero that are tried: -NegRetries .. -1
NegRetries == 1
\* polls after which a waiter with a negative budget is no longer followed
MaxPolls == 4
\* largest per-call timeout of the store client, in ticks
MaxTimeout == 2
\* largest expiry handed to a SET, in ticks
MaxAge == 2
\* operations called on one store client
MaxCalls == 2
\* concurrent fetch calls for the key
NumCallers == 2
\* largest retry budget of a fetch call's waiter
MaxWait == 2
\* most top-level fields of a request
MaxTop == 2
\* most fields of a request's `data` object
MaxInner == 2
\* most attempts a backoff interval is computed for
MaxAttempt == 5
\* most reconnect attempts in a row
MaxReconnects == 31
\* most characters of a password, most parts of a URL's credentials
MaxSecret == 2
\* most records of one achievement
MaxRecords == 3
\* most changed paths of one commit
MaxPaths == 3

(***************************************************************************)
(* Values                                                                  *)
(***************************************************************************)
\* A JavaScript value is a record [t, v]: t its type and v what tells two
\* values of the type apart: a number's value, a string's text, a boolean,
\* and for a CacheEntry object the literal of its result field.
Undefined == [t |-> "undefined", v |-> 0]

Null == [t |-> "null", v |-> 0]

Number(n) == [t |-> "number", v |-> n]

String(text) == [t |-> "string", v |-> text]

Boolean(b) == [t |-> "boolean", v |-> b]

\* the CacheEntry whose result is r
CacheEntry(r) == [t |-> "object", v |-> r]

\* CacheEntry objects a get() can resolve to
CacheEntries == {CacheEntry("41"), CacheEntry("42")}

\* `if (x)` and `!x`: undefined, null, 0, "" and false are falsy; every
\* object is truthy
Truthy(x) ==
    CASE x.t \in {"undefined", "null", "NaN"} -> FALSE
      [] x.t = "number" -> x.v # 0
      [] x.t = "string" -> x.v # ""
      [] x.t = "boolean" -> x.v
      [] OTHER -> TRUE

Min(a, b) == IF a <= b THEN a ELSE b

Max(a, b) == IF a >= b THEN a ELSE b

RECURSIVE Pow(_, _)
\* coefficient ** e, for e >= 0
Pow(b, e) == IF e <= 0 THEN 1 ELSE b * Pow(b, e - 1)

\* a backoff whose exponent is the attempt number itself
exponentialBackOffMsFromZero(retryCount, base, max, coefficient) ==
    Min(max, base * Pow(coefficient, retryCount))

\* exponentialBackOffMs(retryCount, interval, max, coefficient)
exponentialBackOffMs(retryCount, base, max, coefficient) ==
    Min(max, base * Pow(coefficient, retryCount - 1))

\* the interval functions callers pass: a fixed interval (the default is
\* () => 100) or exponentialBackOffMs with its parameters bound
IntervalFns ==
    { [kind |-> "fixed", base |-> 100, max |-> 100, coefficient |-> 1],
      [kind |-> "fixed", base |-> 250, max |-> 250, coefficient |-> 1],
      [kind |-> "exp", base |-> 100, max |-> 1000, coefficient |-> 2],
      [kind |-> "exp", base |-> 100, max |-> 300, coefficient |-> 2] }

\* interval(retryCount)
interval(fn, retryCount) ==
    IF fn.kind = "fixed" THEN fn.base
    ELSE exponentialBackOffMs(retryCount, fn.base, fn.max, fn.coefficient)

(***************************************************************************)
(* getWithCoalescing: the recursive poll _self(_retries)                   *)
(* A poll is a record [pc, left, result]: left is _retries, pc names the   *)
(* promise the poll awaits ("get", "isInFlight", "delay") or how it ended  *)
(* ("returned", "threw").                                                  *)
(***************************************************************************)
\* retryCount = retries - _retries + 1
RetryCount(retries, left) == retries - left + 1

\* a poll that gives up one attempt early
SelfCallEarly(left) ==
    IF left <= 1
    THEN [pc |-> "returned", left |-> left, result |-> Undefined]
    ELSE [pc |-> "get", left |-> left, result |-> Undefined]

\* _self(_retries): `if (_retries === 0) return`, else get(retryCount) is called
SelfCall(left) ==
    IF left = 0
    THEN [pc |-> "returned", left |-> left, result |-> Undefined]
    ELSE [pc |-> "get", left |-> left, result |-> Undefined]

\* a poll that keeps the entry but goes on to ask isInFlight
OnGetNoReturn(poll, entry) ==
    [poll EXCEPT !.pc = "isInFlight", !.result = entry]

\* `const entry = await get(retryCount); if (entry) return entry`,
\* else isInFlight(retryCount) is called
OnGet(poll, entry) ==
    IF Truthy(entry)
    THEN [poll EXCEPT !.pc = "returned", !.result = entry]
    ELSE [poll EXCEPT !.pc = "isInFlight"]

\* a poll that sleeps whatever isInFlight said
OnIsInFlightAlwaysDelay(poll, inFlight) ==
    [poll EXCEPT !.pc = "delay"]

\* `const inFlight = await isInFlight(retryCount); if (!inFlight) return`,
\* else delay(interval(retryCount)) is started
OnIsInFlight(poll, inFlight) ==
    IF ~inFlight
    THEN [poll EXCEPT !.pc = "returned"]
    ELSE [poll EXCEPT !.pc = "delay"]

\* a poll that forgets to use up its budget
OnDelayNoDecrement(poll) == SelfCall(poll.left)

\* `await delay(...); return await _self(_retries - 1)`
OnDelay(poll) == SelfCall(poll.left - 1)

\* a rejected get() or isInFlight() rejects getWithCoalescing
OnReject(poll) == [poll EXCEPT !.pc = "threw"]

(***************************************************************************)
(* JSON text of the values the cache stores                                *)
(***************************************************************************)
\* JSON.stringify of a result field: NaN has no JSON text and becomes null
ResultText(r) == IF r = "NaN" THEN "null" ELSE r

\* JSON.stringify throws a TypeError on a BigInt ("Do not know how to
\* serialize a BigInt"); every other value the cache is handed has a text
Serializable(x) == ~(x.t = "object" /\ x.v = "1n")

\* a serialisation that loses the result field
JSONstringifyLossy(x) ==
    CASE x.t = "object" -> "{}"
      [] x.t = "boolean" -> IF x.v THEN "true" ELSE "false"
      [] OTHER -> "null"

\* JSON.stringify(value): an undefined field is left out
JSONstringify(x) ==
    CASE x.t = "object" ->
            IF x.v = "undefined" THEN "{}"
            ELSE "{\"result\":" \o ResultText(x.v) \o "}"
      [] x.t = "boolean" -> IF x.v THEN "true" ELSE "false"
      [] OTHER -> "null"

\* the number literals that occur as results
NumberLiterals == {ToString(n) : n \in 40..49}

\* the values JSON.parse can produce from the texts the cache stores
JsonValues ==
    {CacheEntry(r) : r \in NumberLiterals \cup {"null", "undefined"}}
        \cup {Boolean(TRUE), Boolean(FALSE), Null}

\* JSON.parse(text)
JSONparse(text) == CHOOSE x \in JsonValues : JSONstringify(x) = text

(***************************************************************************)
(* The Redis server: string keys with a millisecond expiry                 *)
(***************************************************************************)
\* a marker kept under the key of the Cache Entry itself
FlightKeySame(key) == key

\* the flight marker of a key lives under its own key
FlightKey(key) == key \o "#flight"

StoreKeys == {"A", FlightKey("A")}

\* a key that holds nothing: GET replies null
Missing == [val |-> Null, px |-> 0]

EmptyRedis == [k \in StoreKeys |-> Missing]

\* a command of the client: SET key text PX px, GET key, DEL key, PTTL key, QUIT
Command(name, key, text, px) == [name |-> name, key |-> key, text |-> text, px |-> px]

\* a server whose SET leaves the expiry of a key that is there untouched
ApplyKeepingExpiry(r, c) ==
    CASE c.name = "SET" ->
            [r EXCEPT ![c.key] = [val |-> String(c.text),
                                  px |-> IF r[c.key].val # Null THEN r[c.key].px ELSE c.px]]
      [] c.name = "DEL" -> [r EXCEPT ![c.key] = Missing]
      [] OTHER -> r

\* the server's data after it has run a command
Apply(r, c) ==
    CASE c.name = "SET" -> [r EXCEPT ![c.key] = [val |-> String(c.text), px |-> c.px]]
      [] c.name = "DEL" -> [r EXCEPT ![c.key] = Missing]
      [] OTHER -> r

\* the server's reply to a command
Reply(r, c) ==
    CASE c.name = "SET" -> String("OK")
      [] c.name = "GET" -> r[c.key].val
      [] c.name = "DEL" -> Number(IF r[c.key].val # Null THEN 1 ELSE 0)
      [] c.name = "PTTL" -> Number(IF r[c.key].val # Null THEN r[c.key].px ELSE 0 - 2)
      [] OTHER -> String("OK")

\* a server whose keys never expire
ElapseNever(r) == r

\* one millisecond tick: expiries count down and a key whose expiry runs
\* out is gone
Elapse(r) ==
    [k \in StoreKeys |-> IF r[k].px > 1 THEN [r[k] EXCEPT !.px = @ - 1] ELSE Missing]

\* no flight marker has been set
NeverMarked == [set |-> FALSE, ttl |-> 0, age |-> 0]

\* the server runs the SET of a setFlightMarker: the marker's own expiry
\* starts anew
AfterMark(m, s) ==
    IF s.fn = "setFlightMarker" THEN [set |-> TRUE, ttl |-> s.cmd.px, age |-> 0] ELSE m

\* no Cache Entry is there: none was set, or the last one was deleted
NeverStored == [set |-> FALSE, value |-> Undefined, ttl |-> 0, age |-> 0]

\* the server runs the SET of a setResponse: the entry is replaced, value
\* and expiry; it runs the DEL of a del: the entry is gone
AfterStore(e, s) ==
    CASE s.fn = "setResponse" -> [set |-> TRUE, value |-> s.value, ttl |-> s.cmd.px, age |-> 0]
      [] s.fn = "del" -> NeverStored
      [] OTHER -> e

\* a millisecond of the marker's life passes
Older(m) == [m EXCEPT !.age = Min(@ + 1, m.ttl)]

(***************************************************************************)
(* RedisCache: every operation sends one command through contextualTimeout *)
(***************************************************************************)
FnNames ==
    {"setResponse", "setFlightMarker", "getResponse", "getFlightMarker", "del", "ttl", "close"}

\* metrics.CMD_SENT_STATUS
CMD_SENT_STATUS == {"SUCCESS", "TIMEOUT", "FAIL"}

\* the command an operation sends
CommandOf(fn, key, value, maxAge) ==
    CASE fn = "setResponse" -> Command("SET", key, JSONstringify(value), maxAge)
      [] fn = "setFlightMarker" -> Command("SET", key, "true", maxAge)
      [] fn \in {"getResponse", "getFlightMarker"} -> Command("GET", key, "", 0)
      [] fn = "del" -> Command("DEL", key, "", 0)
      [] fn = "ttl" -> Command("PTTL", key, "", 0)
      [] OTHER -> Command("QUIT", "", "", 0)

\* a getResponse that hands back the stored text, unparsed
GetResponseUnparsed(reply) == IF ~Truthy(reply) THEN Undefined ELSE reply

\* getResponse: `if (!entry) return; return JSON.parse(entry)`
GetResponseResult(reply) == IF ~Truthy(reply) THEN Undefined ELSE JSONparse(reply.v)

\* getFlightMarker: `if (!entry) return false; return !!JSON.parse(entry)`
GetFlightMarkerResult(reply) ==
    IF ~Truthy(reply) THEN Boolean(FALSE) ELSE Boolean(Truthy(JSONparse(reply.v)))

\* what an operation returns for the reply of its command
ResultOf(fn, reply) ==
    CASE fn = "getResponse" -> GetResponseResult(reply)
      [] fn = "getFlightMarker" -> GetFlightMarkerResult(reply)
      [] fn = "close" -> Undefined
      [] OTHER -> reply

\* a timer armed one tick late
DeadlineLate(opts) == opts.timeout + 1

\* timeout(promise, this.options.timeout): the tick at which the timer rejects
Deadline(opts) == opts.timeout

\* an operation nobody has called yet
NoCall ==
    [id |-> 0, fn |-> "none", state |-> "idle", elapsed |-> 0,
     error |-> "none", result |-> Undefined]

\* contextualTimeout returns the result
OnResolved(c, reply) == [c EXCEPT !.state = "resolved", !.result = ResultOf(c.fn, reply)]

\* a catch block that swallows e and returns nothing
OnRejectedSwallowed(c, e) == [c EXCEPT !.state = "resolved", !.result = Undefined]

\* contextualTimeout rethrows e
OnRejected(c, e) == [c EXCEPT !.state = "rejected", !.error = e]

\* metrics.redis_commands_sent_count.labels({status, function_name}).inc()
Inc(counts, fn, status) == [counts EXCEPT ![fn][status] = @ + 1]

NoCounts == [fn \in FnNames |-> [status \in CMD_SENT_STATUS |-> 0]]

\* the constructor registers five listeners; close() removes them all
NewClient == [open |-> TRUE, listeners |-> 5]

\* `finally { this.client.removeAllListeners() }` of close()
Finally(cl, fn) == IF fn = "close" THEN [cl EXCEPT !.listeners = 0] ELSE cl

\* the server has run QUIT: the connection is closed
AfterCommand(cl, c) == IF c.name = "QUIT" THEN [cl EXCEPT !.open = FALSE] ELSE cl

(***************************************************************************)
(* Request payloads: plain objects whose fields keep their insertion order *)
(***************************************************************************)
\* an object literal: fields is the sequence of its [k, v] properties
PlainObject(fields) == [t |-> "plain", v |-> fields]

EmptyObject == PlainObject(<<>>)

Field(name, value) == [k |-> name, v |-> value]

IsObject(x) == x.t = "plain"

\* Object.keys(x), in insertion order
Keys(x) == [i \in 1..Len(x.v) |-> x.v[i].k]

Has(x, name) == \E i \in 1..Len(x.v) : x.v[i].k = name

\* x[name]
Get_(x, name) == x.v[CHOOSE i \in 1..Len(x.v) : x.v[i].k = name].v

\* every property name that occurs, in the order Array.prototype.sort gives
AllNamesSorted == <<"base", "data", "extra", "id", "resultPath">>

\* the sequences of at most n fields with distinct names
FieldsOver(fieldSet, n) ==
    {f \in UNION {[1..m -> fieldSet] : m \in 0..n} :
        \A i, j \in 1..Len(f) : i # j => f[i].k # f[j].k}

\* the objects carried under `data`
DataObjects ==
    {PlainObject(f) :
        f \in FieldsOver({Field("base", Number(1)), Field("base", Number(2)),
                          Field("id", Number(1)), Field("id", Number(2)),
                          Field("resultPath", Number(1))}, MaxInner)}

\* the adapter requests: nothing at all, or an object with a request id, the
\* request data and a field no list names
Payloads ==
    {Undefined, Null} \cup
    {PlainObject(f) :
        f \in FieldsOver({Field("id", Number(1)), Field("id", Number(2)),
                          Field("extra", Number(1))}
                         \cup {Field("data", d) : d \in DataObjects}, MaxTop)}

(***************************************************************************)
(* Environment: CACHE_KEY_IGNORED_PROPS and CACHE_KEY_INCLUDED_PROPS, as   *)
(* the lists `split(',').filter((k) => k)` makes of them                   *)
(***************************************************************************)
Envs ==
    {[CACHE_KEY_IGNORED_PROPS |-> ig, CACHE_KEY_INCLUDED_PROPS |-> inc] :
        ig \in {<<>>, <<"extra">>}, inc \in {<<>>, <<"extra">>}}

Range(seq) == {seq[i] : i \in 1..Len(seq)}

\* a deny-list that has lost the request id
excludableWithoutId(env) ==
    {"maxAge", "meta", "debug", "rateLimitMaxAge", "metricsMeta"}
        \cup Range(env.CACHE_KEY_IGNORED_PROPS)

excludableAdapterRequestProperties(env) ==
    {"id", "maxAge", "meta", "debug", "rateLimitMaxAge", "metricsMeta"}
        \cup Range(env.CACHE_KEY_IGNORED_PROPS)

includableAdapterRequestProperties(env) == <<"data">> \o env.CACHE_KEY_INCLUDED_PROPS

\* an empty list of sub-paths
excludableInternalNone == {}

excludableInternalAdapterRequestProperties ==
    {"resultPath", "overrides", "tokenOverrides", "includes"}

(***************************************************************************)
(* lodash pick and omit                                                    *)
(***************************************************************************)
\* pick(data, names): the named properties data has, in the order of names;
\* an empty object when data is undefined or null
pick(data, names) ==
    IF ~IsObject(data) THEN EmptyObject
    ELSE LET present == SelectSeq(names, LAMBDA n : Has(data, n))
         IN  PlainObject([i \in 1..Len(present) |->
                            Field(present[i], Get_(data, present[i]))])

\* omit(object, ["data.p", ...]): a copy without the properties p of its
\* `data` object
omit(object, props) ==
    PlainObject([i \in 1..Len(object.v) |->
        IF object.v[i].k = "data" /\ IsObject(object.v[i].v)
        THEN Field("data",
                PlainObject(SelectSeq(object.v[i].v.v, LAMBDA f : f.k \notin props)))
        ELSE object.v[i]])

getKeyData(data, env) ==
    omit(pick(data, includableAdapterRequestProperties(env)),
         excludableInternalAdapterRequestProperties)

(***************************************************************************)
(* object-hash: the text that is fed to the digest                         *)
(***************************************************************************)
\* the keys in insertion order
InsertionKeys(x) == Keys(x)

\* unorderedObjects (the default): Object.keys(object).sort()
SortedKeys(x) == SelectSeq(AllNamesSorted, LAMBDA n : Has(x, n))

getHashOpts(env) ==
    [algorithm |-> "sha1", encoding |-> "hex", unorderedSets |-> FALSE,
     respectType |-> FALSE, respectFunctionProperties |-> FALSE,
     respectFunctionNames |-> FALSE,
     excludeKeys |-> excludableAdapterRequestProperties(env)]

RECURSIVE dispatch(_, _)
RECURSIVE writeKeys(_, _, _)

\* `keys.forEach`: the key, a colon, the value, a comma
writeKeys(x, keys, options) ==
    IF keys = <<>> THEN ""
    ELSE "string:" \o ToString(Len(Head(keys))) \o ":" \o Head(keys) \o ":"
            \o dispatch(Get_(x, Head(keys)), options) \o ","
            \o writeKeys(x, Tail(keys), options)

\* the type hasher's dispatch: objects write their sorted keys, less those
\* excludeKeys names, at every depth
dispatch(x, options) ==
    CASE x.t = "undefined" -> "Undefined"
      [] x.t = "null" -> "Null"
      [] x.t = "number" -> "number:" \o ToString(x.v)
      [] OTHER ->
            LET keys == SelectSeq(SortedKeys(x), LAMBDA k : k \notin options.excludeKeys)
            IN  "object:" \o ToString(Len(keys)) \o ":" \o writeKeys(x, keys, options)

\* objectHash(value, options): the digest stands for the text it is made of
objectHash(value, options) ==
    options.algorithm \o "(" \o dispatch(value, options) \o ")"

HashModes == {"include", "exclude"}

\* a hash without the `|| !data` guard
hashUnguarded(data, hashOptions, mode, env) ==
    IF mode = "include"
    THEN objectHash(getKeyData(data, env), hashOptions)
    ELSE objectHash(data, getHashOpts(env))

hash(data, hashOptions, mode, env) ==
    IF mode = "include" \/ ~Truthy(data)
    THEN objectHash(getKeyData(data, env), hashOptions)
    ELSE objectHash(data, getHashOpts(env))

NoKeys == [first |-> "", second |-> ""]
(***************************************************************************)
(* exponentialBackOffMs called for attempt 1, 2, 3, ... with the same      *)
(* interval, max and coefficient                                           *)
(***************************************************************************)
NoBackoff == [retryCount |-> 0, interval |-> 100, max |-> 1000, coefficient |-> 2, ms |-> <<>>]

\* the intervals, caps and coefficients tried
BackoffArgs ==
    [interval : {0, 100, 250}, max : {100, 300, 1000}, coefficient : 0..3]

(***************************************************************************)
(* defaultOptions().socket.reconnectStrategy                               *)
(***************************************************************************)
DEFAULT_CACHE_REDIS_MAX_RECONNECT_COOLDOWN == 3000

\* the not-a-number Number() makes of text that is no numeral
NaN == [t |-> "NaN", v |-> 0]

\* the values env.CACHE_REDIS_MAX_RECONNECT_COOLDOWN is given: unset, a
\* number of milliseconds, zero, or text that is no number
CooldownSettings == {Undefined, String("250"), String("500"), String("0"), String("abc")}

\* Number(x) of an environment value: NaN for undefined and for text that
\* is no numeral
ToNumber(x) ==
    IF x.t = "string" /\ \E n \in 0..DEFAULT_CACHE_REDIS_MAX_RECONNECT_COOLDOWN : ToString(n) = x.v
    THEN Number(CHOOSE n \in 0..DEFAULT_CACHE_REDIS_MAX_RECONNECT_COOLDOWN : ToString(n) = x.v)
    ELSE NaN

\* a || b
Or(a, b) == IF Truthy(a) THEN a ELSE b

\* a strategy whose cooldown grows without a cap
reconnectStrategyUncapped(retries, setting) == retries * 100

\* reconnectStrategy(retries): the next cooldown
reconnectStrategy(retries, setting) ==
    Min(retries * 100,
        Or(ToNumber(setting), Number(DEFAULT_CACHE_REDIS_MAX_RECONNECT_COOLDOWN)).v)

\* no reconnect attempted yet
NoReconnect(setting) ==
    [CACHE_REDIS_MAX_RECONNECT_COOLDOWN |-> setting, retries |-> 0,
     cooldowns |-> <<>>, redis_retries_count |-> 0]

(***************************************************************************)
(* redactOptions. A text is the sequence of its characters; the parts of   *)
(* a URL that no pattern looks into (scheme, host) are one element each.   *)
(***************************************************************************)
\* the replacement text of both patterns
Mask == "*****"

LineTerminator == "\n"

\* the passwords: one or more characters, line terminators among them
Passwords ==
    UNION {[1..n -> {"a", "b", LineTerminator}] : n \in 1..MaxSecret}

\* the credentials a URL embeds: user, password, or both
Credentials == UNION {[1..n -> {"u", "p"}] : n \in 1..MaxSecret}

\* redis://host and redis://<credentials>@host
Urls == {<<"redis", "://", "host">>}
            \cup {<<"redis", "://">> \o c \o <<"@", "host">> : c \in Credentials}

\* an option that is not set
Unset == [t |-> "undefined", v |-> <<>>]

Text(s) == [t |-> "text", v |-> s]

\* the options redactOptions is handed; password and url are optional
RedisOptionsSet ==
    [password : {Unset} \cup {Text(p) : p \in Passwords},
     url : {Unset} \cup {Text(u) : u \in Urls}]

NoOptions == [password |-> Unset, url |-> Unset]

RECURSIVE DropLine(_)
\* s without its leading characters up to the next line terminator
DropLine(s) ==
    IF s = <<>> \/ Head(s) = LineTerminator THEN s ELSE DropLine(Tail(s))

RECURSIVE ReplaceDotPlus(_)
\* s.replace(/.+/g, '*****'): every run of characters other than line
\* terminators becomes the mask; the line terminators stay
ReplaceDotPlus(s) ==
    IF s = <<>> THEN <<>>
    ELSE IF Head(s) = LineTerminator THEN <<LineTerminator>> \o ReplaceDotPlus(Tail(s))
    ELSE <<Mask>> \o ReplaceDotPlus(DropLine(s))

\* the last `@` that `.+@` can reach from position i: greedy, at least one
\* character before it, no line terminator on the way; 0 when there is none
LastAt(s, i) ==
    LET ends == {j \in (i + 2)..Len(s) :
                    s[j] = "@" /\ \A k \in (i + 1)..(j - 1) : s[k] # LineTerminator}
    IN  IF ends = {} THEN 0 ELSE CHOOSE j \in ends : \A k \in ends : k <= j

RECURSIVE ReplaceCredentials(_)
\* s.replace(/:\/\/.+@/g, '://*****@')
ReplaceCredentials(s) ==
    LET starts == {i \in 1..Len(s) : s[i] = "://" /\ LastAt(s, i) # 0}
    IN  IF starts = {} THEN s
        ELSE LET i == CHOOSE x \in starts : \A y \in starts : x <= y
             IN  SubSeq(s, 1, i - 1) \o <<"://", Mask, "@">>
                    \o ReplaceCredentials(SubSeq(s, LastAt(s, i) + 1, Len(s)))

\* `if (opts.password)`, `if (opts.url)`: a text that is not empty
Present(x) == x.t = "text" /\ x.v # <<>>

redactOptions(opts) ==
    [password |-> IF Present(opts.password)
                  THEN Text(ReplaceDotPlus(opts.password.v))
                  ELSE opts.password,
     url |-> IF Present(opts.url)
             THEN Text(ReplaceCredentials(opts.url.v))
             ELSE opts.url]

\* nothing redacted yet
NoRedact(opts) == [a |-> opts, b |-> opts, shownA |-> NoOptions, shownB |-> NoOptions, done |-> FALSE]
(***************************************************************************)
(* galaxis: the setData call of an achievement whose values are booleans   *)
(***************************************************************************)
\* the achievement the calls are encoded for
AchievementID == "7"

\* the ID getAchievementsWithMappedIDs has mapped the z-th record to
MappedID(z) == 10 + z

\* the records of the achievement, with their mapped IDs
UpdatedAchievements ==
    UNION {[1..n -> BOOLEAN] : n \in 0..MaxRecords}

\* ecRegistry.getData(achievementID, 0, n): the n values stored now
OldValues(n) == [1..n -> {0, 1}]

\* `typeof updatedAchievements[z].value === 'boolean' ? 1 : 0`
boolAsNum(value) == IF value \in BOOLEAN THEN 1 ELSE 0

\* the indices z, ascending, at which the stored value is not boolAsNum
Differences(updatedAchievements, oldValues) ==
    SelectSeq([z \in 1..Len(updatedAchievements) |-> z],
              LAMBDA z : oldValues[z] # boolAsNum(updatedAchievements[z]))

\* ecRegistry.interface.encodeFunctionData('setData', [id, ids, values])
encodeFunctionData(name, id, ids, values) ==
    [name |-> name, id |-> id, ids |-> ids, values |-> values]

getSetDataEncodedCallForOnlyBooleanAchievement(updatedAchievements, oldValues, achievementID) ==
    LET d == Differences(updatedAchievements, oldValues)
    IN  encodeFunctionData("setData", achievementID,
            [i \in 1..Len(d) |-> MappedID(d[i])],
            [i \in 1..Len(d) |-> boolAsNum(updatedAchievements[d[i]])])

\* nothing encoded yet
NoSetData(updatedAchievements, oldValues) ==
    [updatedAchievements |-> updatedAchievements, oldValues |-> oldValues,
     encoded |-> encodeFunctionData("none", "", <<>>, <<>>)]

(***************************************************************************)
(* galaxis: getEncodedCallsResult, the loop over the achievement IDs       *)
(***************************************************************************)
\* achievement IDs are decimal numerals, written as their digits
AchievementIDs == {<<2>>, <<9>>, <<1, 0>>}

\* parseInt of a decimal numeral
RECURSIVE parseInt(_)
parseInt(digits) ==
    IF digits = <<>> THEN 0
    ELSE 10 * parseInt(SubSeq(digits, 1, Len(digits) - 1)) + digits[Len(digits)]

\* a numeral comes before another as a string (code unit order)
RECURSIVE StringBefore(_, _)
StringBefore(a, b) ==
    IF b = <<>> THEN FALSE
    ELSE IF a = <<>> THEN TRUE
    ELSE IF a[1] # b[1] THEN a[1] < b[1]
    ELSE StringBefore(Tail(a), Tail(b))

\* the keys of an object, in every order they can have been listed in
RECURSIVE Orders(_)
Orders(S) ==
    IF S = {} THEN {<<>>}
    ELSE UNION {{<<x>> \o rest : rest \in Orders(S \ {x})} : x \in S}

\* Object.keys(groupedAchievements)
ObjectKeys == UNION {Orders(S) : S \in SUBSET AchievementIDs}

\* the comparison a sort without a comparator makes: the order of strings
compareAsStrings(a, b) ==
    IF StringBefore(a, b) THEN -1 ELSE IF StringBefore(b, a) THEN 1 ELSE 0

\* `(a, b) => parseInt(a) - parseInt(b)`
compareFn(a, b) == parseInt(a) - parseInt(b)

\* an element is put in its place in a sorted list
RECURSIVE Insert(_, _)
Insert(x, sorted) ==
    IF sorted = <<>> THEN <<x>>
    ELSE IF compareFn(x, sorted[1]) < 0 THEN <<x>> \o sorted
    ELSE <<sorted[1]>> \o Insert(x, Tail(sorted))

\* keys.sort(compareFn)
RECURSIVE sort(_)
sort(keys) ==
    IF keys = <<>> THEN <<>>
    ELSE Insert(keys[Len(keys)], sort(SubSeq(keys, 1, Len(keys) - 1)))

\* batchWriter.LastDataRecordId().toString(): an ID of the list or another
LastDataRecordIds == AchievementIDs \cup {<<0>>}

\* sortedAchievementIDs.findIndex(id => id === lastProcessedID), from 1; 0 when absent
findIndex(sortedAchievementIDs, lastProcessedID) ==
    IF \E i \in 1..Len(sortedAchievementIDs) : sortedAchievementIDs[i] = lastProcessedID
    THEN CHOOSE i \in 1..Len(sortedAchievementIDs) :
            /\ sortedAchievementIDs[i] = lastProcessedID
            /\ \A j \in 1..(i - 1) : sortedAchievementIDs[j] # lastProcessedID
    ELSE 0

\* the position the loop starts at, counted from 1
getIdxLastProcessedAchievementID(sortedAchievementIDs, lastProcessedID) ==
    LET lastProcessedIDIdx == findIndex(sortedAchievementIDs, lastProcessedID)
    IN  IF lastProcessedIDIdx < 1 THEN 1 ELSE lastProcessedIDIdx

\* [config.ecRegistryAddress, encodedCall] of one achievement
CallOf(achievementID) == <<"ecRegistry", achievementID>>

\* callToRequestData(calls, parseInt(achievementID))
callToRequestData(calls, id) == [calls |-> calls, id |-> id]

\* `let encodedCalls = ''`
EmptyCalls == callToRequestData(<<>>, 0)

\* what estimateGas.fulfillBytes does with a batch
Estimates == {"ok", "UNPREDICTABLE_GAS_LIMIT", "SERVER_ERROR"}

\* nothing thrown
NoError == [name |-> "none", statusCode |-> 0]

\* new AdapterError({ jobRunID, message, statusCode })
AdapterError(statusCode) == [name |-> "AdapterError", statusCode |-> statusCode]

\* the function at its first loop test
NoBatch(achievementIDs, currAchievementIdIdx) ==
    [achievementIDs |-> achievementIDs,
     currAchievementIdIdx |-> currAchievementIdIdx,
     calls |-> <<>>,
     encodedCalls |-> EmptyCalls,
     hasHitLimit |-> FALSE,
     pc |-> "loop",
     result |-> EmptyCalls,
     error |-> NoError,
     processed |-> <<>>,
     estimated |-> {},
     refused |-> {}]
(***************************************************************************)
(* The changeset check: the paths of a commit against the path patterns    *)
(***************************************************************************)
\* a path or a pattern is the sequence of its names and separators; in a
\* pattern the name "*" stands for any run of characters, "/" included
Star == "*"

Slash == "/"

\* `packages/<kind>/*/src/*`
AdapterPattern(kind) ==
    <<"packages", Slash, kind, Slash, Star, Slash, "src", Slash, Star>>

\* `.changeset/*`
ChangesetPattern == <<".changeset", Slash, Star>>

\* `[[ $file == pattern ]]`
RECURSIVE Matches(_, _)
Matches(file, pattern) ==
    IF pattern = <<>> THEN file = <<>>
    ELSE IF pattern[1] = Star
         THEN \/ Matches(file, Tail(pattern))
              \/ file # <<>> /\ Matches(Tail(file), pattern)
    ELSE /\ file # <<>>
         /\ file[1] = pattern[1]
         /\ Matches(Tail(file), Tail(pattern))

\* the second test, were the pattern `*.changeset/*`
IsChangesetAnywhere(file) == Matches(file, <<Star>> \o ChangesetPattern)

\* `$file == packages/sources/*/src/* || ... composites ... || ... targets ...`
IsAdapterChange(file) ==
    \/ Matches(file, AdapterPattern("sources"))
    \/ Matches(file, AdapterPattern("composites"))
    \/ Matches(file, AdapterPattern("targets"))

\* `$file == .changeset/*`
IsChangeset(file) == Matches(file, ChangesetPattern)

\* the paths `git diff --name-only HEAD^ HEAD` lists
Paths ==
    { <<"packages", Slash, "sources", Slash, "x", Slash, "src", Slash, "a.ts">>,
      <<"packages", Slash, "composites", Slash, "x", Slash, "src", Slash, "a.ts">>,
      <<"packages", Slash, "targets", Slash, "x", Slash, "y", Slash, "src", Slash, "a.ts">>,
      <<"packages", Slash, "sources", Slash, "x", Slash, "test", Slash, "a.ts">>,
      <<"packages", Slash, "sources", Slash, "src", Slash, "a.ts">>,
      <<"packages", Slash, "core", Slash, "x", Slash, "src", Slash, "a.ts">>,
      <<".changeset", Slash, "a.md">>,
      <<"x", Slash, ".changeset", Slash, "a.md">>,
      <<"README.md">> }

\* the lines of $filename.txt
PathLists == UNION {[1..n -> Paths] : n \in 0..MaxPaths}

\* the script before its first `read`
NoChangeset(lines) ==
    [lines |-> lines,
     read |-> 0,
     has_adapter_change |-> 0,
     has_changeset |-> 0,
     is_valid_change |-> 1,
     notice |-> FALSE,
     pc |-> "read"]
(***************************************************************************)
(* fetch(key, produce, ttlMs, retries, intervalFn): the cache-aside        *)
(* orchestrator, one state machine per call                                *)
(***************************************************************************)
Callers == 1..NumCallers

\* the key all calls are for
Key == "A"

\* the value produce() of caller c computes
Produced(c) == CacheEntry(ToString(40 + c))

\* a waiter that is not running
NoPoll == [pc |-> "none", left |-> 0, result |-> Undefined]

\* a call in Probe: get(key) is sent. Besides pc (Probe, CheckFlight, Wait,
\* Mark, Produce, Store, returned, failed, crashed), the waiter, the result
\* and the error, a call records whether it ran produce(), whether it
\* waited, whether a get of its waiter found an entry, how many gets its
\* waiter made (counted up to one more than its budget), why it went on to produce, whether its probe missed while a
\* producer's marker was set, and whether an entry was in the store while
\* it waited.
NewFetch ==
    [pc |-> "Probe", poll |-> NoPoll, result |-> Undefined, error |-> "none",
     invoked |-> FALSE, waited |-> FALSE, hit |-> FALSE, polls |-> 0,
     via |-> "none", during |-> FALSE, window |-> FALSE]

\* terminal: the result is returned
Return(f, value) == [f EXCEPT !.pc = "returned", !.result = value, !.poll = NoPoll]

\* terminal: a failure is propagated
Fail(f, kind) == [f EXCEPT !.pc = "failed", !.error = kind, !.poll = NoPoll]

\* Produce begins: the flight marker is set next
ToProduce(f, why) == [f EXCEPT !.pc = "Mark", !.via = why, !.poll = NoPoll]

\* Probe: a hit is returned, a miss goes on to Check flight
AfterProbe(f, entry) ==
    IF Truthy(entry) THEN Return(f, entry) ELSE [f EXCEPT !.pc = "CheckFlight"]

\* Wait, after a step of the waiter: a value is returned, absent goes on to
\* Produce, and otherwise the waiter keeps polling
AfterWait(f, p, why, budget) ==
    IF p.pc = "returned"
    THEN IF Truthy(p.result) THEN Return(f, p.result) ELSE ToProduce(f, why)
    ELSE [f EXCEPT !.poll = p,
                   !.polls = IF p.pc = "get" /\ f.poll.pc # "get" /\ @ <= budget
                             THEN @ + 1 ELSE @]

\* Check flight: a marker sends the call to Wait, where the Coalescing
\* Waiter starts; no marker sends it to Produce
AfterCheckFlight(f, inFlight, retries) ==
    IF inFlight
    THEN AfterWait([f EXCEPT !.pc = "Wait", !.waited = TRUE], SelfCall(retries),
                   "exhausted", retries)
    ELSE ToProduce(f, "noMarker")

\* a failed produce() that also clears the flight marker
AfterProduceFailedClearing(r) == Apply(r, Command("DEL", FlightKey(Key), "", 0))

\* produce() failed: the store is left as it is, the marker is not cleared
AfterProduceFailed(r) == r

(***************************************************************************)
(* State                                                                   *)
(***************************************************************************)
VARIABLES
    retries,      \* getWithCoalescing: the retries argument
    intervalFn,   \* getWithCoalescing: the interval argument
    poll,         \* getWithCoalescing: the running _self call
    log,          \* the calls the waiter has made so far
    slept,        \* milliseconds of delay() completed
    options,      \* RedisCache.options
    client,       \* RedisCache.client: open or closed, listeners registered
    redis,        \* the data of the Redis server
    call,         \* the RedisCache operation that is running or ran last
    sent,         \* commands sent to the server and not yet answered
    counts,       \* metrics.redis_commands_sent_count
    marked,       \* the last flight marker the server has set, and its age
    stored,       \* the last Cache Entry the server has set, and its age
    fetch,        \* the fetch calls for the key
    produced,     \* the values produce() calls have completed with
    env,          \* process.env: the cache key lists
    mode,         \* hash: the mode argument
    payload,      \* hash: the data argument
    other,        \* a second request, hashed the same way
    keys,         \* the keys hash returned for the two requests
    backoff,      \* exponentialBackOffMs: its arguments and the values returned
    reconnect,    \* reconnectStrategy: the environment, the attempts, the metric
    redact,       \* redactOptions: two configurations and what is shown of them
    setData,      \* the boolean achievement being encoded and its setData call
    batch,        \* getEncodedCallsResult: the loop over the achievement IDs
    changeset     \* the changeset check: the paths read and the flags

waitVars == <<retries, intervalFn, poll, log, slept>>

\* the waiter's own state, the retries argument apart
waitRest == <<intervalFn, poll, log, slept>>

storeVars == <<options, client, call, counts, marked, stored>>

serverVars == <<redis, sent>>

fetchVars == <<fetch, produced>>

keyVars == <<env, mode, payload, other, keys>>

cacheVars == <<waitVars, storeVars, serverVars, fetchVars, keyVars>>

utilVars == <<backoff, reconnect, redact, setData, batch, changeset>>

vars == <<cacheVars, utilVars>>

(***************************************************************************)
(* The waiter on its own: get and isInFlight are the caller's functions    *)
(* and may resolve to anything their types allow, or reject.               *)
(***************************************************************************)
\* a call in the log: op(n), for delay the milliseconds asked for, how it
\* settled and, once resolved, the entry or the flag it resolved to
Call(op, n, ms) ==
    [op |-> op, n |-> n, ms |-> ms, state |-> "pending",
     entry |-> Undefined, flag |-> FALSE]

\* the call a poll has just issued, appended to the log
Issued(p, R, fn) ==
    IF p.pc = "get"
    THEN <<Call("get", RetryCount(R, p.left), 0)>>
    ELSE IF p.pc = "isInFlight"
    THEN <<Call("isInFlight", RetryCount(R, p.left), 0)>>
    ELSE IF p.pc = "delay"
    THEN <<Call("delay", RetryCount(R, p.left), interval(fn, RetryCount(R, p.left)))>>
    ELSE <<>>

\* the log with its last call resolved to an entry, resolved to a flag, rejected
GotEntry(l, entry) == [l EXCEPT ![Len(l)].state = "resolved", ![Len(l)].entry = entry]

GotFlag(l, flag) == [l EXCEPT ![Len(l)].state = "resolved", ![Len(l)].flag = flag]

Rejected(l) == [l EXCEPT ![Len(l)].state = "rejected"]

WaitInit ==
    /\ retries \in (0 - NegRetries)..MaxRetries
    /\ intervalFn \in IntervalFns
    /\ poll = SelfCall(retries)
    /\ log = Issued(SelfCall(retries), retries, intervalFn)
    /\ slept = 0

\* get(retryCount) resolves
WaitGetResolves ==
    /\ poll.pc = "get"
    /\ \E entry \in CacheEntries \cup {Undefined} :
        /\ poll' = OnGet(poll, entry)
        /\ log' = GotEntry(log, entry) \o Issued(OnGet(poll, entry), retries, intervalFn)
    /\ UNCHANGED <<retries, intervalFn, slept>>

\* get(retryCount) rejects
WaitGetRejects ==
    /\ poll.pc = "get"
    /\ poll' = OnReject(poll)
    /\ log' = Rejected(log)
    /\ UNCHANGED <<retries, intervalFn, slept>>

\* isInFlight(retryCount) resolves
WaitIsInFlightResolves ==
    /\ poll.pc = "isInFlight"
    /\ \E inFlight \in BOOLEAN :
        /\ poll' = OnIsInFlight(poll, inFlight)
        /\ log' = GotFlag(log, inFlight)
                    \o Issued(OnIsInFlight(poll, inFlight), retries, intervalFn)
    /\ UNCHANGED <<retries, intervalFn, slept>>

\* isInFlight(retryCount) rejects
WaitIsInFlightRejects ==
    /\ poll.pc = "isInFlight"
    /\ poll' = OnReject(poll)
    /\ log' = Rejected(log)
    /\ UNCHANGED <<retries, intervalFn, slept>>

\* the delay() timer fires
WaitDelayElapses ==
    /\ poll.pc = "delay"
    /\ retries < 0 => RetryCount(retries, poll.left) < MaxPolls
    /\ poll' = OnDelay(poll)
    /\ log' = [log EXCEPT ![Len(log)].state = "resolved"]
                \o Issued(OnDelay(poll), retries, intervalFn)
    /\ slept' = slept + log[Len(log)].ms
    /\ UNCHANGED <<retries, intervalFn>>

(***************************************************************************)
(* The store client on its own: operations called one after the other,     *)
(* time passing in ticks of one millisecond                                *)
(***************************************************************************)
\* values handed to setResponse
StoreValues == {CacheEntry("42"), CacheEntry("NaN"), CacheEntry("1n")}

StoreInit ==
    /\ options \in [timeout : 1..MaxTimeout]
    /\ client = NewClient
    /\ redis = EmptyRedis
    /\ call = NoCall
    /\ sent = {}
    /\ counts = NoCounts
    /\ marked = NeverMarked
    /\ stored = NeverStored

\* the command of the running operation is still unanswered
Outstanding == \E s \in sent : s.id = call.id

\* an operation is called: its command is handed to the client, which
\* refuses it when the connection is closed, and the timer is armed;
\* setResponse serialises the value first, and when JSON.stringify throws,
\* the operation fails before a command is made or contextualTimeout entered
StoreCall ==
    /\ call.state # "pending"
    /\ call.id < MaxCalls
    /\ \E fn \in FnNames, key \in {"A"}, value \in StoreValues, maxAge \in 1..MaxAge :
        IF fn = "setResponse" /\ ~Serializable(value)
        THEN /\ call' = OnRejected([NoCall EXCEPT !.id = call.id + 1, !.fn = fn], "TypeError")
             /\ sent' = sent
        ELSE /\ call' = [NoCall EXCEPT !.id = call.id + 1, !.fn = fn, !.state = "pending"]
             /\ sent' = sent \cup {[id |-> call.id + 1, fn |-> fn,
                                    value |-> IF fn = "setResponse" THEN value ELSE Undefined,
                                    refused |-> ~client.open,
                                    cmd |-> CommandOf(fn,
                                         IF fn \in {"setFlightMarker", "getFlightMarker"}
                                         THEN FlightKey(key) ELSE key, value, maxAge)]}
    /\ UNCHANGED <<options, client, redis, counts, marked, stored>>

\* the server runs the commands of a connection in the order they were
\* sent. It runs the oldest and its reply arrives: the operation that
\* awaits it succeeds; a command whose operation has timed out still runs
StoreReply ==
    \E s \in sent :
        /\ ~s.refused
        /\ \A o \in sent : ~o.refused => s.id <= o.id
        /\ sent' = sent \ {s}
        /\ redis' = Apply(redis, s.cmd)
        /\ marked' = AfterMark(marked, s)
        /\ stored' = AfterStore(stored, s)
        /\ IF call.state = "pending" /\ s.id = call.id
           THEN /\ call' = OnResolved(call, Reply(redis, s.cmd))
                /\ counts' = Inc(counts, call.fn, "SUCCESS")
                /\ client' = Finally(AfterCommand(client, s.cmd), call.fn)
           ELSE /\ client' = AfterCommand(client, s.cmd)
                /\ UNCHANGED <<call, counts>>
        /\ UNCHANGED options

\* the client rejects a command (closed connection, full queue, broken
\* socket): the operation that awaits it fails
StoreError ==
    \E s \in sent :
        /\ sent' = sent \ {s}
        /\ IF call.state = "pending" /\ s.id = call.id
           THEN /\ call' = OnRejected(call, "Error")
                /\ counts' = Inc(counts, call.fn, "FAIL")
                /\ client' = Finally(client, call.fn)
           ELSE UNCHANGED <<call, counts, client>>
        /\ UNCHANGED <<options, redis, marked, stored>>

\* the timer of timeout() fires before the command is answered: the
\* operation fails with a TimeoutError and the command stays with the server
StoreTimeout ==
    /\ call.state = "pending"
    /\ call.elapsed = Deadline(options)
    /\ call' = OnRejected(call, "TimeoutError")
    /\ counts' = Inc(counts, call.fn, "TIMEOUT")
    /\ client' = Finally(client, call.fn)
    /\ UNCHANGED <<options, redis, sent, marked, stored>>

\* a millisecond passes; a due timer fires before more time passes
StoreTick ==
    /\ call.state = "pending" => call.elapsed < Deadline(options)
    /\ call.state = "pending" \/ \E k \in StoreKeys : redis[k].px > 0
    /\ redis' = Elapse(redis)
    /\ marked' = Older(marked)
    /\ stored' = Older(stored)
    /\ call' = IF call.state = "pending" THEN [call EXCEPT !.elapsed = @ + 1] ELSE call
    /\ UNCHANGED <<options, client, sent, counts>>

(***************************************************************************)
(* Concurrent fetch calls for one key, sharing only the store. A store     *)
(* call is one step: the server runs the command and the caller goes on,   *)
(* or the call fails (StoreError, the command is not run) or times out     *)
(* (Timeout, the command may still run later). Expiries elapse at any time.*)
(***************************************************************************)
\* how a store call ends
Outcomes == {"ok", "StoreError", "Timeout"}

\* the expiry of the flight marker and of a cache entry
MarkerTtl == 1

EntryTtl == MaxAge

\* every waiting call sees whether an entry is in the store
Observe(fs, r) ==
    [c \in Callers |->
        IF fs[c].pc = "Wait" /\ r[Key].val # Null
        THEN [fs[c] EXCEPT !.window = TRUE] ELSE fs[c]]

\* some call is producing: its marker is set and its value is not written yet
Producing(fs, r) ==
    /\ r[FlightKey(Key)].val # Null
    /\ r[Key].val = Null
    /\ \E a \in Callers : fs[a].pc = "Produce"

FetchInit ==
    /\ retries \in 0..MaxWait
    /\ fetch = [c \in Callers |-> NewFetch]
    /\ produced = {}
    /\ redis = EmptyRedis
    /\ sent = {}

\* a command that timed out for its caller stays with the server
Abandon(c, cmd) == sent \cup {[id |-> c, refused |-> FALSE, cmd |-> cmd]}

\* Probe: get(key)
FetchProbe(c) ==
    /\ fetch[c].pc = "Probe"
    /\ \E o \in Outcomes :
        LET cmd == CommandOf("getResponse", Key, Undefined, 0)
            entry == ResultOf("getResponse", Reply(redis, cmd))
        IN  fetch' = Observe([fetch EXCEPT ![c] =
                IF o = "ok"
                THEN AfterProbe([@ EXCEPT !.during = Producing(fetch, redis)], entry)
                ELSE Fail(@, o)], redis)
    /\ UNCHANGED <<retries, produced, redis, sent>>

\* Check flight: isInFlight(key)
FetchCheckFlight(c) ==
    /\ fetch[c].pc = "CheckFlight"
    /\ \E o \in Outcomes :
        LET cmd == CommandOf("getFlightMarker", FlightKey(Key), Undefined, 0)
            inFlight == ResultOf("getFlightMarker", Reply(redis, cmd))
        IN  fetch' = Observe([fetch EXCEPT ![c] =
                IF o = "ok" THEN AfterCheckFlight(@, inFlight.v, retries)
                ELSE Fail(@, o)], redis)
    /\ UNCHANGED <<retries, produced, redis, sent>>

\* Wait: the waiter's get(retryCount) is answered
FetchWaitGet(c) ==
    /\ fetch[c].pc = "Wait" /\ fetch[c].poll.pc = "get"
    /\ \E o \in Outcomes :
        LET cmd == CommandOf("getResponse", Key, Undefined, 0)
            entry == ResultOf("getResponse", Reply(redis, cmd))
        IN  fetch' = Observe([fetch EXCEPT ![c] =
                IF o = "ok"
                THEN AfterWait([@ EXCEPT !.hit = @ \/ entry # Undefined],
                               OnGet(@.poll, entry), "exhausted", retries)
                ELSE Fail(@, o)], redis)
    /\ UNCHANGED <<retries, produced, redis, sent>>

\* Wait: the waiter's isInFlight(retryCount) is answered
FetchWaitIsInFlight(c) ==
    /\ fetch[c].pc = "Wait" /\ fetch[c].poll.pc = "isInFlight"
    /\ \E o \in Outcomes :
        LET cmd == CommandOf("getFlightMarker", FlightKey(Key), Undefined, 0)
            inFlight == ResultOf("getFlightMarker", Reply(redis, cmd))
        IN  fetch' = Observe([fetch EXCEPT ![c] =
                IF o = "ok"
                THEN AfterWait(@, OnIsInFlight(@.poll, inFlight.v), "notInFlight", retries)
                ELSE Fail(@, o)], redis)
    /\ UNCHANGED <<retries, produced, redis, sent>>

\* Wait: the waiter's delay(interval(retryCount)) is over
FetchWaitDelay(c) ==
    /\ fetch[c].pc = "Wait" /\ fetch[c].poll.pc = "delay"
    /\ fetch' = Observe([fetch EXCEPT ![c] = AfterWait(@, OnDelay(@.poll), "exhausted", retries)], redis)
    /\ UNCHANGED <<retries, produced, redis, sent>>

\* Produce: the flight marker is set with its own expiry, then produce()
\* is invoked
FetchMark(c) ==
    /\ fetch[c].pc = "Mark"
    /\ \E o \in Outcomes :
        LET cmd == CommandOf("setFlightMarker", FlightKey(Key), Undefined, MarkerTtl)
        IN  /\ redis' = IF o = "ok" THEN Apply(redis, cmd) ELSE redis
            /\ sent' = IF o = "Timeout" THEN Abandon(c, cmd) ELSE sent
            /\ fetch' = Observe([fetch EXCEPT ![c] =
                    IF o = "ok" THEN [@ EXCEPT !.pc = "Produce", !.invoked = TRUE]
                    ELSE Fail(@, o)], redis')
    /\ UNCHANGED <<retries, produced>>

\* Produce: produce() completes with its value, which is then stored
FetchProduceSucceeds(c) ==
    /\ fetch[c].pc = "Produce"
    /\ produced' = produced \cup {Produced(c)}
    /\ fetch' = Observe([fetch EXCEPT ![c] = [@ EXCEPT !.pc = "Store", !.result = Produced(c)]],
                        redis)
    /\ UNCHANGED <<retries, redis, sent>>

\* Produce: produce() fails and the failure is propagated
FetchProduceFails(c) ==
    /\ fetch[c].pc = "Produce"
    /\ redis' = AfterProduceFailed(redis)
    /\ fetch' = Observe([fetch EXCEPT ![c] = Fail(@, "ProductionError")], redis')
    /\ UNCHANGED <<retries, produced, sent>>

\* Produce: the producer dies after it has set the marker
FetchCrash(c) ==
    /\ fetch[c].pc = "Produce"
    /\ fetch' = Observe([fetch EXCEPT ![c] = [@ EXCEPT !.pc = "crashed"]], redis)
    /\ UNCHANGED <<retries, produced, redis, sent>>

\* Produce: the result is stored with ttlMs and returned
FetchStore(c) ==
    /\ fetch[c].pc = "Store"
    /\ \E o \in Outcomes :
        LET cmd == CommandOf("setResponse", Key, fetch[c].result, EntryTtl)
        IN  /\ redis' = IF o = "ok" THEN Apply(redis, cmd) ELSE redis
            /\ sent' = IF o = "Timeout" THEN Abandon(c, cmd) ELSE sent
            /\ fetch' = Observe([fetch EXCEPT ![c] =
                    IF o = "ok" THEN Return(@, @.result)
                    ELSE Fail([@ EXCEPT !.result = Undefined], o)], redis')
    /\ UNCHANGED <<retries, produced>>

\* the expiry of a key elapses
FetchExpire(k) ==
    /\ redis[k].val # Null
    /\ redis' = [redis EXCEPT ![k] = Missing]
    /\ fetch' = Observe(fetch, redis')
    /\ UNCHANGED <<retries, produced, sent>>

\* the server runs a command whose caller has timed out, or never does
FetchLate ==
    \E s \in sent :
        /\ sent' = sent \ {s}
        /\ \/ redis' = Apply(redis, s.cmd)
           \/ redis' = redis
        /\ fetch' = Observe(fetch, redis')
        /\ UNCHANGED <<retries, produced>>

(***************************************************************************)
(* The cache key of a request                                              *)
(***************************************************************************)
KeyInit ==
    /\ env \in Envs
    /\ mode \in HashModes
    /\ payload \in Payloads
    /\ other = payload
    /\ keys = NoKeys

\* hash(data, getHashOpts(), mode) of the request and of a second request
KeyHash ==
    /\ keys = NoKeys
    /\ \E p \in Payloads :
        /\ other' = p
        /\ keys' = [first |-> hash(payload, getHashOpts(env), mode, env),
                    second |-> hash(p, getHashOpts(env), mode, env)]
    /\ UNCHANGED <<env, mode, payload>>
(***************************************************************************)
(* The backoff interval, attempt after attempt                             *)
(***************************************************************************)
BackoffInit ==
    \E a \in BackoffArgs :
        backoff = [retryCount |-> 0, interval |-> a.interval, max |-> a.max,
                   coefficient |-> a.coefficient, ms |-> <<>>]

\* exponentialBackOffMs(retryCount, interval, max, coefficient) for the
\* next attempt
BackoffCall ==
    /\ backoff.retryCount < MaxAttempt
    /\ backoff' = [backoff EXCEPT
            !.retryCount = @ + 1,
            !.ms = Append(@, exponentialBackOffMs(backoff.retryCount + 1,
                        backoff.interval, backoff.max, backoff.coefficient))]

(***************************************************************************)
(* A connection that keeps failing: the client asks the strategy for the   *)
(* next cooldown with retries = 0, 1, 2, ...                               *)
(***************************************************************************)
ReconnectInit == \E setting \in CooldownSettings : reconnect = NoReconnect(setting)

\* reconnectStrategy(retries): the metric is incremented and the cooldown
\* returned
ReconnectAttempt ==
    /\ reconnect.retries <= MaxReconnects
    /\ reconnect' = [reconnect EXCEPT
            !.retries = @ + 1,
            !.redis_retries_count = @ + 1,
            !.cooldowns = Append(@, reconnectStrategy(reconnect.retries,
                                        reconnect.CACHE_REDIS_MAX_RECONNECT_COOLDOWN))]

(***************************************************************************)
(* Two configurations are redacted                                         *)
(***************************************************************************)
RedactInit == \E opts \in RedisOptionsSet : redact = NoRedact(opts)

\* redactOptions(a) and redactOptions(b)
RedactBoth ==
    /\ ~redact.done
    /\ \E opts \in RedisOptionsSet :
        redact' = [a |-> redact.a, b |-> opts,
                   shownA |-> redactOptions(redact.a),
                   shownB |-> redactOptions(opts), done |-> TRUE]
(***************************************************************************)
(* One boolean achievement is encoded                                      *)
(***************************************************************************)
SetDataInit ==
    \E a \in UpdatedAchievements :
        \E old \in OldValues(Len(a)) : setData = NoSetData(a, old)

SetDataEncode ==
    /\ setData.encoded.name = "none"
    /\ setData' = [setData EXCEPT !.encoded =
            getSetDataEncodedCallForOnlyBooleanAchievement(
                setData.updatedAchievements, setData.oldValues, AchievementID)]

(***************************************************************************)
(* getEncodedCallsResult                                                   *)
(***************************************************************************)
BatchInit ==
    \E ids \in ObjectKeys, lastProcessedID \in LastDataRecordIds :
        batch = NoBatch(sort(ids), getIdxLastProcessedAchievementID(sort(ids), lastProcessedID))

\* one pass of the while loop
BatchStep ==
    /\ batch.pc = "loop"
    /\ ~batch.hasHitLimit
    /\ batch.currAchievementIdIdx <= Len(batch.achievementIDs)
    /\ LET achievementID == batch.achievementIDs[batch.currAchievementIdIdx]
           calls == Append(batch.calls, CallOf(achievementID))
           updatedEncodedCalls == callToRequestData(calls, parseInt(achievementID))
           seen == [batch EXCEPT !.processed = Append(@, achievementID)]
           next == [seen EXCEPT !.currAchievementIdIdx = @ + 1]
       IN  \/ \* addressCanModifyTrait resolves false
              batch' = next
           \/ \E estimate \in Estimates :
                batch' =
                    CASE estimate = "ok" ->
                            [next EXCEPT !.calls = calls,
                                         !.encodedCalls = updatedEncodedCalls,
                                         !.estimated = @ \cup {updatedEncodedCalls}]
                      [] estimate = "UNPREDICTABLE_GAS_LIMIT" ->
                            [next EXCEPT !.calls = calls,
                                         !.hasHitLimit = TRUE,
                                         !.refused = @ \cup {updatedEncodedCalls}]
                      [] OTHER ->
                            [seen EXCEPT !.calls = calls,
                                         !.pc = "thrown",
                                         !.error = AdapterError(500),
                                         !.refused = @ \cup {updatedEncodedCalls}]

\* the loop test fails: `return encodedCalls`
BatchReturn ==
    /\ batch.pc = "loop"
    /\ batch.hasHitLimit \/ batch.currAchievementIdIdx > Len(batch.achievementIDs)
    /\ batch' = [batch EXCEPT !.pc = "returned", !.result = batch.encodedCalls]
(***************************************************************************)
(* The changeset check                                                     *)
(***************************************************************************)
ChangesetInit == \E lines \in PathLists : changeset = NoChangeset(lines)

\* one pass of `while IFS= read -r file`
ChangesetRead ==
    /\ changeset.pc = "read"
    /\ changeset.read < Len(changeset.lines)
    /\ LET file == changeset.lines[changeset.read + 1]
       IN  changeset' = [changeset EXCEPT
                !.read = @ + 1,
                !.has_adapter_change = IF IsAdapterChange(file) THEN 1 ELSE @,
                !.has_changeset = IF IsChangeset(file) THEN 1 ELSE @]

\* the end of the list: the verdict, the notice and the exit
ChangesetVerdict ==
    /\ changeset.pc = "read"
    /\ changeset.read = Len(changeset.lines)
    /\ LET is_valid_change ==
               IF changeset.has_adapter_change = 1 /\ changeset.has_changeset = 0
               THEN 0 ELSE 1
       IN  changeset' = [changeset EXCEPT
                !.is_valid_change = is_valid_change,
                !.notice = (is_valid_change = 0),
                !.pc = "exit"]
(***************************************************************************)
(* Specifications                                                          *)
(***************************************************************************)
\* the waiter and the store client when another part of the system runs
WaitIdle ==
    /\ intervalFn = [kind |-> "fixed", base |-> 100, max |-> 100, coefficient |-> 1]
    /\ poll = SelfCall(0)
    /\ log = <<>>
    /\ slept = 0

WaitOff == retries = 0 /\ WaitIdle

StoreIdle ==
    /\ options = [timeout |-> 1]
    /\ client = NewClient
    /\ call = NoCall
    /\ counts = NoCounts
    /\ marked = NeverMarked
    /\ stored = NeverStored

ServerIdle ==
    /\ redis = EmptyRedis
    /\ sent = {}

KeyIdle ==
    /\ env = [CACHE_KEY_IGNORED_PROPS |-> <<>>, CACHE_KEY_INCLUDED_PROPS |-> <<>>]
    /\ mode = "include"
    /\ payload = Undefined
    /\ other = Undefined
    /\ keys = NoKeys

FetchIdle ==
    /\ fetch = [c \in Callers |-> NewFetch]
    /\ produced = {}

BackoffIdle == backoff = NoBackoff

ReconnectIdle == reconnect = NoReconnect(Undefined)

RedactIdle == redact = NoRedact(NoOptions)

SetDataIdle == setData = NoSetData(<<>>, <<>>)

BatchIdle == batch = NoBatch(<<>>, 1)

ChangesetIdle == changeset = NoChangeset(<<>>)

UtilIdle ==
    BackoffIdle /\ ReconnectIdle /\ RedactIdle /\ SetDataIdle /\ BatchIdle /\ ChangesetIdle

CacheIdle == WaitOff /\ StoreIdle /\ ServerIdle /\ FetchIdle /\ KeyIdle

WaitNext ==
    \/ WaitGetResolves /\ UNCHANGED <<storeVars, serverVars, fetchVars, keyVars, utilVars>>
    \/ WaitGetRejects /\ UNCHANGED <<storeVars, serverVars, fetchVars, keyVars, utilVars>>
    \/ WaitIsInFlightResolves /\ UNCHANGED <<storeVars, serverVars, fetchVars, keyVars, utilVars>>
    \/ WaitIsInFlightRejects /\ UNCHANGED <<storeVars, serverVars, fetchVars, keyVars, utilVars>>
    \/ WaitDelayElapses /\ UNCHANGED <<storeVars, serverVars, fetchVars, keyVars, utilVars>>

InitWait == WaitInit /\ StoreIdle /\ ServerIdle /\ FetchIdle /\ KeyIdle /\ UtilIdle

SpecWait == InitWait /\ [][WaitNext]_vars

StoreNext ==
    \/ StoreCall /\ UNCHANGED <<waitVars, fetchVars, keyVars, utilVars>>
    \/ StoreReply /\ UNCHANGED <<waitVars, fetchVars, keyVars, utilVars>>
    \/ StoreError /\ UNCHANGED <<waitVars, fetchVars, keyVars, utilVars>>
    \/ StoreTimeout /\ UNCHANGED <<waitVars, fetchVars, keyVars, utilVars>>
    \/ StoreTick /\ UNCHANGED <<waitVars, fetchVars, keyVars, utilVars>>

InitStore == StoreInit /\ WaitOff /\ FetchIdle /\ KeyIdle /\ UtilIdle

SpecStore == InitStore /\ [][StoreNext]_vars

FetchNext ==
    \/ \E c \in Callers : FetchProbe(c) /\ UNCHANGED <<waitRest, storeVars, keyVars, utilVars>>
    \/ \E c \in Callers : FetchCheckFlight(c) /\ UNCHANGED <<waitRest, storeVars, keyVars, utilVars>>
    \/ \E c \in Callers : FetchWaitGet(c) /\ UNCHANGED <<waitRest, storeVars, keyVars, utilVars>>
    \/ \E c \in Callers : FetchWaitIsInFlight(c) /\ UNCHANGED <<waitRest, storeVars, keyVars, utilVars>>
    \/ \E c \in Callers : FetchWaitDelay(c) /\ UNCHANGED <<waitRest, storeVars, keyVars, utilVars>>
    \/ \E c \in Callers : FetchMark(c) /\ UNCHANGED <<waitRest, storeVars, keyVars, utilVars>>
    \/ \E c \in Callers : FetchProduceSucceeds(c) /\ UNCHANGED <<waitRest, storeVars, keyVars, utilVars>>
    \/ \E c \in Callers : FetchProduceFails(c) /\ UNCHANGED <<waitRest, storeVars, keyVars, utilVars>>
    \/ \E c \in Callers : FetchCrash(c) /\ UNCHANGED <<waitRest, storeVars, keyVars, utilVars>>
    \/ \E c \in Callers : FetchStore(c) /\ UNCHANGED <<waitRest, storeVars, keyVars, utilVars>>
    \/ \E k \in StoreKeys : FetchExpire(k) /\ UNCHANGED <<waitRest, storeVars, keyVars, utilVars>>
    \/ FetchLate /\ UNCHANGED <<waitRest, storeVars, keyVars, utilVars>>

InitFetch == FetchInit /\ WaitIdle /\ StoreIdle /\ KeyIdle /\ UtilIdle

SpecFetch == InitFetch /\ [][FetchNext]_vars

\* the steps of one fetch call that its scheduling completes: every store
\* call ends within the per-call timeout, every delay elapses, and
\* produce() ends unless the producer dies
FetchStep(c) ==
    /\ \/ FetchProbe(c)
       \/ FetchCheckFlight(c)
       \/ FetchWaitGet(c)
       \/ FetchWaitIsInFlight(c)
       \/ FetchWaitDelay(c)
       \/ FetchMark(c)
       \/ FetchProduceSucceeds(c)
       \/ FetchProduceFails(c)
       \/ FetchStore(c)
    /\ UNCHANGED <<waitRest, storeVars, keyVars, utilVars>>

SpecFetchFair == SpecFetch /\ \A c \in Callers : WF_vars(FetchStep(c))


KeyNext == KeyHash /\ UNCHANGED <<waitVars, storeVars, serverVars, fetchVars, utilVars>>

InitKey == KeyInit /\ WaitOff /\ StoreIdle /\ ServerIdle /\ FetchIdle /\ UtilIdle

SpecKey == InitKey /\ [][KeyNext]_vars

BackoffNext == BackoffCall /\ UNCHANGED <<cacheVars, reconnect, redact, setData, batch, changeset>>

InitBackoff == BackoffInit /\ CacheIdle /\ ReconnectIdle /\ RedactIdle /\ SetDataIdle /\ BatchIdle /\ ChangesetIdle

SpecBackoff == InitBackoff /\ [][BackoffNext]_vars

ReconnectNext == ReconnectAttempt /\ UNCHANGED <<cacheVars, backoff, redact, setData, batch, changeset>>

InitReconnect == ReconnectInit /\ CacheIdle /\ BackoffIdle /\ RedactIdle /\ SetDataIdle /\ BatchIdle /\ ChangesetIdle

SpecReconnect == InitReconnect /\ [][ReconnectNext]_vars

RedactNext == RedactBoth /\ UNCHANGED <<cacheVars, backoff, reconnect, setData, batch, changeset>>

InitRedact == RedactInit /\ CacheIdle /\ BackoffIdle /\ ReconnectIdle /\ SetDataIdle /\ BatchIdle /\ ChangesetIdle

SpecRedact == InitRedact /\ [][RedactNext]_vars

SetDataNext == SetDataEncode /\ UNCHANGED <<cacheVars, backoff, reconnect, redact, batch, changeset>>

InitSetData ==
    SetDataInit /\ CacheIdle /\ BackoffIdle /\ ReconnectIdle /\ RedactIdle /\ BatchIdle /\ ChangesetIdle

SpecSetData == InitSetData /\ [][SetDataNext]_vars

OthersIdle == CacheIdle /\ BackoffIdle /\ ReconnectIdle /\ RedactIdle /\ SetDataIdle

BatchNext ==
    \/ BatchStep /\ UNCHANGED <<cacheVars, backoff, reconnect, redact, setData, changeset>>
    \/ BatchReturn /\ UNCHANGED <<cacheVars, backoff, reconnect, redact, setData, changeset>>

InitBatch == BatchInit /\ OthersIdle /\ ChangesetIdle

SpecBatch == InitBatch /\ [][BatchNext]_vars

ChangesetNext ==
    \/ ChangesetRead /\ UNCHANGED <<cacheVars, backoff, reconnect, redact, setData, batch>>
    \/ ChangesetVerdict /\ UNCHANGED <<cacheVars, backoff, reconnect, redact, setData, batch>>

InitChangeset == ChangesetInit /\ OthersIdle /\ BatchIdle

SpecChangeset == InitChangeset /\ [][ChangesetNext]_vars
(***************************************************************************)
(* Properties of the waiter                                                *)
(***************************************************************************)
\* the calls of one kind in the log
CallsOf(op) == {i \in DOMAIN log : log[i].op = op}

WaitEnded == poll.pc \in {"returned", "threw"}

RECURSIVE SumIntervals(_, _)
\* interval(1) + ... + interval(n)
SumIntervals(fn, n) ==
    IF n <= 0 THEN 0 ELSE interval(fn, n) + SumIntervals(fn, n - 1)

RECURSIVE MaxInterval(_, _)
\* the largest of interval(1), ..., interval(n)
MaxInterval(fn, n) ==
    IF n <= 0 THEN 0 ELSE Max(interval(fn, n), MaxInterval(fn, n - 1))

\* C1: a get that resolves to a present entry is the last call of the waiter:
\* the waiter has returned that very entry, and no isInFlight, delay or get
\* follows it in the log.
C1_PresentEntryReturnedAtOnce ==
    \A i \in CallsOf("get") :
        (log[i].state = "resolved" /\ log[i].entry # Undefined)
            => /\ i = Len(log)
               /\ poll.pc = "returned"
               /\ poll.result = log[i].entry

\* C1 witness: a present entry found by a poll that follows a sleep
C1_Witness ==
    \E i \in CallsOf("get") :
        /\ log[i].state = "resolved" /\ log[i].entry # Undefined
        /\ log[i].n >= 2
        /\ poll.pc = "returned" /\ poll.result = log[i].entry

\* C2: an isInFlight that resolves to false (after a get that found nothing)
\* is the last call of the waiter: the waiter has returned absent, with no
\* delay, get or isInFlight after it, whatever budget is left.
C2_NotInFlightReturnsAbsentAtOnce ==
    \A i \in CallsOf("isInFlight") :
        (log[i].state = "resolved" /\ ~log[i].flag)
            => /\ i = Len(log)
               /\ log[i - 1].op = "get" /\ log[i - 1].entry = Undefined
               /\ poll.pc = "returned"
               /\ poll.result = Undefined

\* C2 witness: isInFlight is false on the first poll of a budget of three
C2_Witness ==
    /\ retries = 3 /\ poll.left = 3 /\ poll.pc = "returned"
    /\ Len(log) = 2 /\ log[2].op = "isInFlight"
    /\ log[2].state = "resolved" /\ ~log[2].flag

\* C3 (the claim as stated): for every integer budget R, at most max(R,0)
\* calls of get, of isInFlight and of delay are made, and with R <= 0 the
\* waiter has returned absent without calling get.
C3_BoundedByBudget ==
    /\ Cardinality(CallsOf("get")) <= Max(retries, 0)
    /\ Cardinality(CallsOf("isInFlight")) <= Max(retries, 0)
    /\ Cardinality(CallsOf("delay")) <= Max(retries, 0)
    /\ retries <= 0 => (poll.pc = "returned" /\ poll.result = Undefined /\ log = <<>>)

\* every get so far found nothing and every isInFlight so far said true
NothingEverAppears ==
    /\ \A i \in CallsOf("get") : log[i].state = "resolved" /\ log[i].entry = Undefined
    /\ \A i \in CallsOf("isInFlight") : log[i].state = "resolved" /\ log[i].flag
    /\ \A i \in CallsOf("delay") : log[i].state = "resolved"

\* C4: with a budget R >= 1 the time slept never exceeds R * max(interval),
\* nor R * I for a fixed interval I; and when get is always absent and
\* isInFlight always true the waiter returns absent, not an error, having
\* slept interval(1) + ... + interval(R).
C4_CoalescingBound ==
    retries >= 1 =>
        /\ slept <= retries * MaxInterval(intervalFn, retries)
        /\ intervalFn.kind = "fixed" => slept <= retries * intervalFn.base
        /\ NothingEverAppears =>
            /\ poll.pc = "returned"
            /\ poll.result = Undefined
            /\ Cardinality(CallsOf("delay")) = retries
            /\ slept = SumIntervals(intervalFn, retries)

\* C4 witness: three polls with exponential backoff, nothing ever appears
C4_Witness ==
    /\ retries = 3 /\ intervalFn.kind = "exp" /\ intervalFn.max = 1000
    /\ NothingEverAppears /\ poll.pc = "returned" /\ slept = 700


\* the poll a call of the log belongs to: the number of gets up to it
PollOf(i) == Cardinality({j \in CallsOf("get") : j <= i})

\* C25: while a poll runs, retryCount + retriesRemaining = retries + 1; the
\* k-th poll passes the attempt number k to get, to isInFlight and to
\* interval; attempt numbers start at 1, go up by 1 from poll to poll and
\* never exceed retries.
C25_RetryBookkeeping ==
    /\ poll.pc \in {"get", "isInFlight", "delay"}
        => log[Len(log)].n + poll.left = retries + 1
    /\ \A i \in DOMAIN log :
        /\ log[i].n = PollOf(i)
        /\ log[i].n >= 1
        /\ log[i].n <= retries
        /\ log[i].op = "delay" => log[i].ms = interval(intervalFn, PollOf(i))
(***************************************************************************)
(* Properties of fetch                                                     *)
(***************************************************************************)
Terminal(c) == fetch[c].pc \in {"returned", "failed", "crashed"}

StoreFailed(c) == fetch[c].error \in {"StoreError", "Timeout"}

\* the call's waiter ended with absent
WaitedInVain(c) == fetch[c].waited /\ fetch[c].via \in {"notInFlight", "exhausted"}

\* C5 (the claim as stated): when exactly one produce() has succeeded, no
\* producer died and no store call failed, every call that has ended has
\* returned that value, and no waiter has ended with absent although an
\* entry was in the store at some moment of its wait.
C5_NeverLost ==
    (/\ Cardinality(produced) = 1
     /\ \A c \in Callers : fetch[c].pc # "crashed" /\ ~StoreFailed(c))
        => /\ (\A c \in Callers : Terminal(c))
                => \A c \in Callers : fetch[c].pc = "returned" /\ fetch[c].result \in produced
           /\ \A c \in Callers : WaitedInVain(c) => ~fetch[c].window

\* C5 (amended): when at most one produce() has succeeded, every call that
\* returns a value returns that value; a call that has ended otherwise has
\* propagated a failure, a ProductionError being the failure of its own
\* produce(); and a waiter ends with absent only if none of its gets found
\* an entry.
C5_NeverLostAmended ==
    /\ Cardinality(produced) <= 1
        => \A c \in Callers : fetch[c].pc = "returned" => fetch[c].result \in produced
    /\ \A c \in Callers : fetch[c].pc = "failed" =>
        /\ fetch[c].error \in {"ProductionError", "StoreError", "Timeout"}
        /\ fetch[c].error = "ProductionError"
            => (fetch[c].invoked /\ Produced(c) \notin produced)
    /\ \A c \in Callers : WaitedInVain(c) => ~fetch[c].hit

\* C5 witness: one producer, and every call has returned its value, one of
\* them from its waiter
C5_Witness ==
    /\ Cardinality(produced) = 1
    /\ \A c \in Callers : fetch[c].pc = "returned" /\ fetch[c].result \in produced
    /\ \E c \in Callers : fetch[c].waited /\ fetch[c].hit /\ ~fetch[c].invoked

\* another call has stored its value and returned it
SomeoneStored(b) ==
    \E a \in Callers \ {b} :
        fetch[a].pc = "returned" /\ fetch[a].invoked /\ fetch[a].result = Produced(a)

\* C6 (the claim as stated): a call whose Probe missed while a producer's
\* marker was set and its value not yet written never runs produce() once
\* that value is stored: it is checking the marker, waiting, or has
\* returned a produced value from its waiter.
C6_SecondCallerCoalesces ==
    \A b \in Callers :
        (fetch[b].during /\ SomeoneStored(b) /\ ~StoreFailed(b))
            => /\ ~fetch[b].invoked
               /\ fetch[b].pc \in {"CheckFlight", "Wait", "returned"}
               /\ fetch[b].pc = "returned" => (fetch[b].waited /\ fetch[b].result \in produced)

\* C6 (amended): for a call whose Probe missed while a producer's marker was
\* set and its value not yet written: a get of its waiter that finds an
\* entry makes it return that produced value without running produce(); it
\* returns without running produce() only in that way; and it goes on to
\* produce only because the marker was gone at its flight check, because a
\* poll found no marker, or because all `retries` polls found no entry.
C6_SecondCallerCoalescesAmended ==
    \A b \in Callers :
        fetch[b].during =>
            /\ fetch[b].hit =>
                /\ fetch[b].pc = "returned" /\ fetch[b].waited /\ ~fetch[b].invoked
                /\ fetch[b].result \in produced
            /\ (fetch[b].pc = "returned" /\ ~fetch[b].invoked)
                => (fetch[b].waited /\ fetch[b].hit)
            /\ (fetch[b].invoked \/ fetch[b].pc = "Mark") =>
                /\ ~fetch[b].hit
                /\ fetch[b].via \in {"noMarker", "notInFlight", "exhausted"}
                /\ fetch[b].via = "notInFlight" => fetch[b].polls \in 1..retries
                /\ fetch[b].via = "exhausted" => (fetch[b].waited /\ fetch[b].polls = retries)

\* C6 witness: the second call waited, polled more than once and returned
\* the first call's value without producing
C6_Witness ==
    \E b \in Callers :
        /\ fetch[b].during /\ fetch[b].hit /\ fetch[b].polls >= 2
        /\ fetch[b].pc = "returned" /\ ~fetch[b].invoked
        /\ SomeoneStored(b)
        /\ \E a \in Callers \ {b} : fetch[b].result = Produced(a)

\* C7: every fetch call ends - it returns, propagates a failure, or its own
\* produce() never ends because the producer died - whatever the other
\* calls do.
C7_FetchTerminates == \A c \in Callers : <>Terminal(c)

\* C7 witness: a producer died with its marker set, and a call that waited
\* for it gave up and went on to produce and return its own value
C7_Witness ==
    \E a \in Callers, b \in Callers :
        /\ fetch[a].pc = "crashed"
        /\ fetch[b].waited /\ fetch[b].via = "exhausted"
        /\ fetch[b].pc = "returned" /\ fetch[b].invoked

\* the SET commands that carry the value of caller c
WritesOf(c) == {s \in sent : s.cmd.name = "SET" /\ s.cmd.text = JSONstringify(Produced(c))}

\* a call propagates the failure of its produce()
ProduceFailsStep(c) == fetch[c].pc = "Produce" /\ fetch'[c].pc = "failed"

\* C8: a call whose produce() failed has ended with that failure and no
\* value, nothing of it is written or on its way to the store, and the
\* step that propagates the failure leaves the store - the flight marker
\* included - as it was.
C8_ProduceFailurePropagated ==
    /\ [](\A c \in Callers : fetch[c].error = "ProductionError" =>
            /\ fetch[c].pc = "failed" /\ fetch[c].invoked
            /\ fetch[c].result = Undefined
            /\ Produced(c) \notin produced
            /\ redis[Key].val # String(JSONstringify(Produced(c)))
            /\ WritesOf(c) = {})
    /\ [][\A c \in Callers : ProduceFailsStep(c) =>
            /\ fetch'[c].error = "ProductionError"
            /\ redis' = redis]_vars

\* C8 witness: produce() has failed and the marker set before it is still
\* in the store
C8_Witness ==
    \E c \in Callers :
        /\ fetch[c].error = "ProductionError"
        /\ redis[FlightKey(Key)].val = String("true")
        /\ redis[Key].val = Null

\* C9: the entry visible in the store reads back as the value of a
\* completed produce(), and so does every value a fetch has returned.
C9_OnlyCompletedProductions ==
    /\ redis[Key].val # Null => GetResponseResult(redis[Key].val) \in produced
    /\ \A s \in sent : (s.cmd.name = "SET" /\ s.cmd.key = Key)
            => \E v \in produced : s.cmd.text = JSONstringify(v)
    /\ \A c \in Callers : fetch[c].pc = "returned" => fetch[c].result \in produced
    /\ \A c \in Callers : fetch[c].poll.result # Undefined => fetch[c].poll.result \in produced

\* C9 witness: two calls raced, both produced, and a third party reading the
\* store sees the value of the last writer
C9_Witness ==
    /\ Cardinality(produced) >= 2
    /\ \A c \in Callers : fetch[c].pc = "returned"
    /\ \E c \in Callers : fetch[c].invoked /\ redis[Key].val = String(JSONstringify(Produced(c)))
    /\ \E c \in Callers : fetch[c].invoked /\ redis[Key].val # String(JSONstringify(Produced(c)))

(***************************************************************************)
(* Properties of the store client                                          *)
(***************************************************************************)
Settled == call.state \in {"resolved", "rejected"}

\* C10: an operation never keeps its caller waiting past the per-call
\* timeout; an operation that has ended while its command was unanswered
\* has failed with a TimeoutError exactly when the timeout elapsed; and a
\* timed-out operation stays failed whatever happens to its command later.
C10_TimeoutIsolation ==
    /\ call.state = "pending" => call.elapsed <= options.timeout
    /\ (Settled /\ Outstanding)
        => (call.state = "rejected" /\ call.error = "TimeoutError")
    /\ call.error = "TimeoutError"
        => (call.state = "rejected" /\ call.elapsed = options.timeout)

\* C10 witness: setResponse timed out and the server ran its SET afterwards
C10_Witness ==
    /\ call.fn = "setResponse" /\ call.error = "TimeoutError"
    /\ ~Outstanding
    /\ redis["A"].val # Null
    /\ counts["setResponse"]["TIMEOUT"] = 1


\* the outcome kind that matches how an operation ended
OutcomeKind(c) ==
    IF c.state = "resolved" THEN "SUCCESS"
    ELSE IF c.error = "TimeoutError" THEN "TIMEOUT" ELSE "FAIL"

\* an operation ends in this step
Ends == call' # call /\ call'.state \in {"resolved", "rejected"}

\* C11: the step in which an operation ends adds one to exactly one
\* counter, the one labelled with the operation's name and with the outcome
\* kind that matches how it ended (success, timeout, failure), and no other
\* step changes a counter.
C11_OneIncrementPerCall ==
    [][IF Ends
       THEN counts' = Inc(counts, call'.fn, OutcomeKind(call'))
       ELSE counts' = counts]_vars

\* the commands handed to the client in this step
Issues == sent' \ sent

\* commands are issued only by the step that starts an operation, and then
\* only one, for that operation
IssuedOnlyAtStart ==
    Issues # {} =>
        /\ call'.id = call.id + 1
        /\ \E s \in Issues : Issues = {s} /\ s.id = call'.id

\* a running operation ends with a result only when the server's reply to
\* its command arrives, and with that reply's result; when its command is
\* rejected it fails with that error, and when the timer fires first it
\* fails with the TimeoutError
FailureReported ==
    (call.state = "pending" /\ call'.state # "pending") =>
        /\ call'.id = call.id
        /\ IF \E s \in sent \ sent' : s.id = call.id
           THEN LET s == CHOOSE x \in sent \ sent' : x.id = call.id
                IN  IF call'.state = "resolved"
                    THEN /\ ~s.refused
                         /\ call'.result = ResultOf(call.fn, Reply(redis, s.cmd))
                    ELSE call'.error = "Error"
           ELSE call'.state = "rejected" /\ call'.error = "TimeoutError"

\* a failed operation stays failed: nothing re-runs it
NeverRetried ==
    call.state = "rejected" => (call'.id = call.id => call' = call)

\* C12 (as stated): every operation issues its store command exactly once;
\* one that times out or fails is reported to its caller as a failure with
\* the original cause, is never retried, and never becomes a successful
\* absent or empty result.
C12_FailureReportedNoRetry ==
    [][/\ IssuedOnlyAtStart
       /\ call'.id # call.id => Issues # {}
       /\ FailureReported
       /\ NeverRetried]_vars

\* C12 (amended): every operation issues its store command at most once:
\* exactly once, except a setResponse whose value JSON.stringify rejects,
\* which issues none and fails with that TypeError; an operation that times
\* out or fails is reported to its caller as a failure with the original
\* cause, is never retried, and never becomes a successful result.
C12_FailureReportedNoRetryAmended ==
    [][/\ IssuedOnlyAtStart
       /\ call'.id # call.id =>
            IF call'.fn = "setResponse" /\ call'.error = "TypeError"
            THEN Issues = {} /\ call'.state = "rejected"
            ELSE Issues # {} /\ call'.state = "pending"
       /\ FailureReported
       /\ NeverRetried]_vars

\* C12 witness: a getResponse whose command the client rejected has failed
\* with that error, and a getResponse before it had timed out
C12_Witness ==
    /\ call.id = 2 /\ call.fn = "getResponse"
    /\ call.state = "rejected" /\ call.error = "Error"
    /\ counts["getResponse"]["FAIL"] = 1
    /\ counts["getResponse"]["TIMEOUT"] = 1

\* a close() has completed earlier
ClosedBefore == counts["close"]["SUCCESS"] >= 1 /\ ~client.open

\* C13: once a first close() has completed, every further close() completes
\* without failure, hands no further command to the store, and leaves the
\* client closed with no listeners registered.
C13_CloseIdempotent ==
    (call.fn = "close" /\ ClosedBefore) =>
        /\ call.state # "rejected"
        /\ \A s \in sent : s.id = call.id => s.refused
        /\ Settled => client = [open |-> FALSE, listeners |-> 0]

\* what isInFlight(key) returns when the server runs its GET in this state
IsInFlight(key) == GetFlightMarkerResult(Reply(redis, Command("GET", FlightKey(key), "", 0)))

\* what get(key) returns when the server runs its GET in this state
Get(key) == GetResponseResult(Reply(redis, Command("GET", key, "", 0)))

\* the marker has been set and its own ttlMs has not yet elapsed
MarkerAlive == marked.set /\ marked.age < marked.ttl

\* C14: isInFlight(key) is false when no marker was ever set, true from the
\* moment the server has set the marker until the marker's ttlMs has
\* elapsed, and false again afterwards without any explicit clear, whatever
\* Cache Entry is stored or expires meanwhile; and a getFlightMarker call
\* that returns, returns exactly that.
C14_FlightMarkerSemantics ==
    /\ [](IsInFlight("A") = Boolean(MarkerAlive))
    /\ [][(call.fn = "getFlightMarker" /\ call.state = "pending"
            /\ call'.state = "resolved")
          => call'.result = Boolean(MarkerAlive)]_vars

\* C14 witness: a marker set with a ttl of two ticks has expired on its own
\* while a Cache Entry stored after it, with its own ttl, is still there
C14_Witness ==
    /\ marked = [set |-> TRUE, ttl |-> 2, age |-> 2]
    /\ IsInFlight("A") = Boolean(FALSE)
    /\ Get("A") = CacheEntry("42")
    /\ call.fn = "setResponse" /\ call.state = "resolved"

\* the server runs the command of an operation fn in this step
Ran(fn) == \E s \in sent \ sent' : s.fn = fn /\ ~s.refused /\ redis' = Apply(redis, s.cmd)

\* C15: the SET of markInFlight(key, ttl) leaves the result of get(key)
\* unchanged, the SET of setWithExpiry(key, v, ttl) leaves isInFlight(key)
\* unchanged, and get(key) never returns a marker as a cached value.
C15_DisjointNamespace ==
    /\ [](/\ Get("A").t # "boolean"
          /\ (call.fn = "getResponse" /\ call.state = "resolved")
                => call.result.t # "boolean")
    /\ [][/\ Ran("setFlightMarker") => Get("A")' = Get("A")
          /\ Ran("setResponse") => IsInFlight("A")' = IsInFlight("A")]_vars

\* C15 witness: a marker is set and alive, and the Cache Entry stored after
\* it under the same key is what get returns
C15_Witness ==
    /\ MarkerAlive /\ IsInFlight("A") = Boolean(TRUE)
    /\ call.id = 2 /\ call.fn = "setResponse" /\ call.state = "resolved"
    /\ Get("A") = CacheEntry("42")

\* an entry has been set, not deleted since, and its ttlMs has not elapsed
EntryAlive == stored.set /\ stored.age < stored.ttl

\* get(key) returns expected while the last entry set is alive, with the
\* expiry of that entry running, and absent before any was set and after
\* its ttlMs has elapsed
EntryIs(expected) ==
    /\ EntryAlive => /\ Get("A") = expected
                      /\ redis["A"].px = stored.ttl - stored.age
    /\ ~EntryAlive => Get("A") = Undefined

\* a getResponse call that returns in this step returns the same
GetReturns(expected) ==
    (call.fn = "getResponse" /\ call.state = "pending" /\ call'.state = "resolved")
        => call'.result = IF EntryAlive THEN expected ELSE Undefined

\* C24 (as stated): after setWithExpiry(key, v, ttlMs), get(key) returns a
\* value equal to v until ttlMs has elapsed and absent afterwards; a later
\* setWithExpiry(key, v2, ttl2) replaces value and expiry wholesale; get of
\* a key never set returns absent.
C24_EntryRoundTrip ==
    /\ [](EntryIs(stored.value))
    /\ [][GetReturns(stored.value)]_vars

\* C24 (amended): the same, with get(key) returning what JSON.parse makes
\* of the JSON text of v, which is equal to v when v is made of JSON values
\* only.
C24_EntryRoundTripAmended ==
    /\ [](EntryIs(JSONparse(JSONstringify(stored.value))))
    /\ [][GetReturns(JSONparse(JSONstringify(stored.value)))]_vars

\* C24 witness: a second setResponse has replaced the entry by one whose
\* result is NaN, with a ttl of two ticks of which one has passed
C24_Witness ==
    /\ counts["setResponse"]["SUCCESS"] = 2
    /\ stored = [set |-> TRUE, value |-> CacheEntry("NaN"), ttl |-> 2, age |-> 1]
    /\ Get("A") = CacheEntry("null")
(***************************************************************************)
(* Properties of the cache key                                             *)
(***************************************************************************)
Hashed == keys # NoKeys

RECURSIVE SameUpToOrder(_, _)

\* a and b differ at most in the insertion order of object fields, at any
\* nesting depth
SameUpToOrder(a, b) ==
    IF a.t # b.t THEN FALSE
    ELSE IF IsObject(a)
         THEN /\ Range(Keys(a)) = Range(Keys(b))
              /\ \A n \in Range(Keys(a)) : SameUpToOrder(Get_(a, n), Get_(b, n))
         ELSE a = b

\* C16: two payloads that differ only in the insertion order of object
\* fields, at any nesting depth, get the same canonical key, in include
\* and in exclude mode.
C16_CanonicalizationDeterminism ==
    (Hashed /\ SameUpToOrder(payload, other)) => keys.first = keys.second

\* C16 witness: in exclude mode, two requests whose top-level fields and
\* whose `data` fields come in different orders have been hashed
C16_Witness ==
    /\ Hashed /\ mode = "exclude"
    /\ SameUpToOrder(payload, other)
    /\ IsObject(payload) /\ Keys(payload) = <<"data", "extra">>
    /\ Keys(other) = <<"extra", "data">>
    /\ Get_(payload, "data") # Get_(other, "data")

\* the designated volatile top-level fields
Volatile ==
    {"id", "maxAge", "meta", "debug", "rateLimitMaxAge", "metricsMeta"}
        \cup Range(env.CACHE_KEY_IGNORED_PROPS)

\* the top-level fields of x that are not among names
Strip(x, names) == SelectSeq(x.v, LAMBDA f : f.k \notin names)

\* b is a with volatile top-level fields added, removed or changed, and
\* nothing else touched
SameUpToVolatile(a, b) ==
    IsObject(a) /\ IsObject(b) /\ Strip(a, Volatile) = Strip(b, Volatile)

\* C17: adding, removing or changing only designated volatile top-level
\* fields of a payload leaves its canonical key unchanged, in include and
\* in exclude mode.
C17_VolatilityBlindness ==
    (Hashed /\ SameUpToVolatile(payload, other)) => keys.first = keys.second

\* C17 witness: in exclude mode, with `extra` configured as ignored, a
\* request with id 1 and one with `extra` instead, same data, were hashed
C17_Witness ==
    /\ Hashed /\ mode = "exclude"
    /\ env.CACHE_KEY_IGNORED_PROPS = <<"extra">>
    /\ IsObject(payload) /\ Keys(payload) = <<"id", "data">>
    /\ IsObject(other) /\ Keys(other) = <<"data", "extra">>
    /\ Get_(payload, "data") = Get_(other, "data")
    /\ Get_(payload, "data") # EmptyObject

\* the fields of a request that count for its key: in include mode the
\* allow-listed top-level fields without the four `data` sub-paths, in
\* exclude mode everything but the deny-listed top-level fields
Included(p) ==
    IF mode = "include" THEN getKeyData(p, env) ELSE PlainObject(Strip(p, Volatile))

\* C18: two payloads that differ in the value of an included field get
\* different canonical keys: in include mode any difference inside `data`
\* outside the four removed sub-paths changes the key, also in a nested
\* field named like a volatile one, and in exclude mode only top-level
\* deny-listed fields are ignored.
C18_KeySensitivity ==
    (/\ Hashed
     /\ IsObject(payload) /\ IsObject(other)
     /\ ~SameUpToOrder(Included(payload), Included(other)))
        => keys.first # keys.second

\* the allow-listed top-level field names
AllowList == {"data"} \cup Range(env.CACHE_KEY_INCLUDED_PROPS)

\* the sub-paths of `data` that never count
SubPaths == {"resultPath", "overrides", "tokenOverrides", "includes"}

\* the allow-listed top-level fields of a request, `data` without the four
\* sub-paths
Selection(p) ==
    IF ~IsObject(p) THEN EmptyObject
    ELSE LET kept == SelectSeq(p.v, LAMBDA f : f.k \in AllowList)
         IN  PlainObject([i \in 1..Len(kept) |->
                IF kept[i].k = "data" /\ IsObject(kept[i].v)
                THEN Field("data", PlainObject(Strip(kept[i].v, SubPaths)))
                ELSE kept[i]])

\* C19: in include mode two payloads that agree on the allow-listed
\* top-level fields, less data.resultPath, data.overrides,
\* data.tokenOverrides and data.includes, get the same key, whatever their
\* other top-level fields and whatever those sub-paths hold.
C19_IncludeModeSelection ==
    (Hashed /\ mode = "include" /\ SameUpToOrder(Selection(payload), Selection(other)))
        => keys.first = keys.second

\* C19 witness: in include mode a request with data.resultPath and a field
\* `extra`, and one with neither but an id, same data.base, were hashed
C19_Witness ==
    /\ Hashed /\ mode = "include" /\ env.CACHE_KEY_INCLUDED_PROPS = <<>>
    /\ IsObject(payload) /\ Keys(payload) = <<"data", "extra">>
    /\ Keys(Get_(payload, "data")) = <<"resultPath", "base">>
    /\ IsObject(other) /\ Keys(other) = <<"id", "data">>
    /\ Keys(Get_(other, "data")) = <<"base">>
    /\ Get_(Get_(other, "data"), "base") = Get_(Get_(payload, "data"), "base")

\* the payloads that carry nothing
EmptyPayloads == {Undefined, Null, EmptyObject}

\* C20: for an undefined or empty payload hash returns a key, never an
\* error, and the same fixed key in include and in exclude mode: the key
\* of the empty object.
C20_EmptyPayloadKey ==
    (Hashed /\ payload \in EmptyPayloads) =>
        /\ keys.first = objectHash(EmptyObject, getHashOpts(env))
        /\ keys.first = "sha1(object:0:)"
        /\ other \in EmptyPayloads => keys.second = keys.first

\* C20 witness: in exclude mode an undefined request and an empty one were
\* hashed
C20_Witness ==
    /\ Hashed /\ mode = "exclude"
    /\ payload = Undefined /\ other = EmptyObject
    /\ keys.first = keys.second
(***************************************************************************)
(* Properties of the backoff intervals                                     *)
(***************************************************************************)
\* C21: the interval of every 1-based attempt n is
\* min(max, interval * coefficient^(n-1)); for interval 100, max 1000 and
\* coefficient 2 attempts 1..5 give 100, 200, 400, 800, 1000; and for a
\* coefficient of at least 1 the intervals never decrease from one attempt
\* to the next and never exceed max.
C21_BackoffFormula ==
    /\ \A n \in 1..Len(backoff.ms) :
        backoff.ms[n] = Min(backoff.max, backoff.interval * Pow(backoff.coefficient, n - 1))
    /\ (/\ backoff.interval = 100 /\ backoff.max = 1000 /\ backoff.coefficient = 2
        /\ Len(backoff.ms) >= 5)
        => SubSeq(backoff.ms, 1, 5) = <<100, 200, 400, 800, 1000>>
    /\ backoff.coefficient >= 1 =>
        /\ \A n \in 1..Len(backoff.ms) : backoff.ms[n] <= backoff.max
        /\ \A n \in 2..Len(backoff.ms) : backoff.ms[n - 1] <= backoff.ms[n]

\* C21 witness: five attempts with interval 100, max 1000, coefficient 2
C21_Witness ==
    /\ backoff.interval = 100 /\ backoff.max = 1000 /\ backoff.coefficient = 2
    /\ backoff.ms = <<100, 200, 400, 800, 1000>>

(***************************************************************************)
(* Properties of the reconnect strategy                                    *)
(***************************************************************************)
\* the maximum cooldown that is configured: the number the setting names,
\* 3000 when nothing is set
Configured(setting) ==
    CASE setting = String("250") -> 250
      [] setting = String("500") -> 500
      [] setting = String("0") -> 0
      [] OTHER -> 3000

\* the maximum cooldown the strategy works with: the configured number
\* when it is a number other than zero, else 3000
Effective(setting) ==
    CASE setting = String("250") -> 250
      [] setting = String("500") -> 500
      [] OTHER -> 3000

\* the cooldowns returned so far are min(r * 100, cap) for r = 0, 1, ...,
\* never decrease, never exceed cap, and every invocation has returned a
\* delay and counted one reconnect attempt
CooldownsUnder(cap) ==
    /\ \A i \in 1..Len(reconnect.cooldowns) :
        /\ reconnect.cooldowns[i] = Min((i - 1) * 100, cap)
        /\ reconnect.cooldowns[i] \in 0..cap
    /\ \A i \in 2..Len(reconnect.cooldowns) :
        reconnect.cooldowns[i - 1] <= reconnect.cooldowns[i]
    /\ Len(reconnect.cooldowns) = reconnect.retries
    /\ reconnect.redis_retries_count = reconnect.retries

\* C22 (as stated): the cooldown of reconnect attempt r is
\* min(r * 100, maxCooldown) for the configured maximum (3000 by default),
\* so cooldowns never decrease and never exceed it; every invocation
\* returns a delay and increments the reconnect-attempt counter once.
C22_ReconnectBackoff == CooldownsUnder(Configured(reconnect.CACHE_REDIS_MAX_RECONNECT_COOLDOWN))

\* C22 (amended): the same, for the maximum the strategy works with: the
\* configured value when it is a number other than zero, 3000 otherwise.
C22_ReconnectBackoffAmended == CooldownsUnder(Effective(reconnect.CACHE_REDIS_MAX_RECONNECT_COOLDOWN))

\* C22 witness: with nothing configured the cooldown has climbed to the
\* default maximum and stayed there
C22_Witness ==
    /\ reconnect.CACHE_REDIS_MAX_RECONNECT_COOLDOWN = Undefined
    /\ reconnect.retries = 32
    /\ reconnect.cooldowns[30] = 2900
    /\ reconnect.cooldowns[31] = 3000
    /\ reconnect.cooldowns[32] = 3000
    /\ reconnect.redis_retries_count = 32

(***************************************************************************)
(* Properties of redactOptions                                             *)
(***************************************************************************)
\* the URL without what stands between `://` and `@`
WithoutCredentials(u) ==
    IF \E j \in 1..Len(u) : u[j] = "@"
    THEN SubSeq(u, 1, 2) \o SubSeq(u, CHOOSE j \in 1..Len(u) : u[j] = "@", Len(u))
    ELSE u

HasCredentials(x) == x.t = "text" /\ \E j \in 1..Len(x.v) : x.v[j] = "@"

\* both configurations have a password and a URL with credentials, and
\* they differ in nothing else
DifferOnlyInSecrets(a, b) ==
    /\ a.password.t = "text" /\ b.password.t = "text"
    /\ HasCredentials(a.url) /\ HasCredentials(b.url)
    /\ WithoutCredentials(a.url.v) = WithoutCredentials(b.url.v)

\* C23: two configurations that differ only in their password and in the
\* credentials of their URL are shown alike: the password as the fixed
\* mask, the URL with the fixed mask between `://` and `@`.
C23_RedactionHidesSecrets ==
    (redact.done /\ DifferOnlyInSecrets(redact.a, redact.b)) =>
        /\ redact.shownA = redact.shownB
        /\ redact.shownA.password.v = <<Mask>>
        /\ redact.shownA.url.v = <<"redis", "://", Mask, "@", "host">>
(***************************************************************************)
(* Properties of the galaxis achievement encoding                          *)
(***************************************************************************)
\* true as 1, false as 0
AsNumber(b) == IF b THEN 1 ELSE 0

\* the records whose new value differs from the stored one, in order
Changed ==
    SelectSeq([z \in 1..Len(setData.updatedAchievements) |-> z],
              LAMBDA z : setData.oldValues[z] # AsNumber(setData.updatedAchievements[z]))

\* C26: the setData call of an all-boolean achievement lists exactly the
\* records whose new value (true as 1, false as 0) differs from the value
\* stored in the registry, each with its mapped ID and its new value, and
\* no record whose value is unchanged.
C26_OnlyChangedBooleans ==
    setData.encoded.name = "setData" =>
        /\ setData.encoded.ids = [i \in 1..Len(Changed) |-> MappedID(Changed[i])]
        /\ setData.encoded.values =
                [i \in 1..Len(Changed) |-> AsNumber(setData.updatedAchievements[Changed[i]])]

\* the numbers of the IDs the loop has taken so far rise strictly
AscendingSoFar ==
    \A i, j \in 1..Len(batch.processed) :
        i < j => parseInt(batch.processed[i]) < parseInt(batch.processed[j])

\* the accumulated result is empty or a batch whose estimation succeeded
EmptyOrEstimated(encoded) ==
    \/ encoded.calls = <<>> /\ encoded.id = 0
    \/ encoded \in batch.estimated /\ encoded \notin batch.refused

\* once the gas limit is hit no further ID is taken, and what is returned
\* is what had been accumulated before
StopsAtLimit ==
    batch.hasHitLimit =>
        /\ batch'.processed = batch.processed
        /\ batch'.pc = "returned"
        /\ batch'.result = batch.encodedCalls
        /\ batch'.result \notin batch.refused

\* an estimation error of another kind ends the call with AdapterError 500
ThrownIsAdapterError ==
    batch.pc = "thrown" =>
        /\ batch.error.name = "AdapterError" /\ batch.error.statusCode = 500
        /\ batch.result.calls = <<>>

\* a result is returned only without an error
ReturnedIsClean ==
    batch.pc = "returned" => batch.error.name = "none" /\ EmptyOrEstimated(batch.result)

\* C27: getEncodedCallsResult takes the achievement IDs in ascending numeric
\* order; at every loop step and on return the accumulated result is empty
\* or the encoding of a batch whose gas estimation succeeded; the first
\* UNPREDICTABLE_GAS_LIMIT failure stops the loop, no further ID is taken and
\* the failing batch is not returned; any other estimation error ends the
\* call with an AdapterError of status 500 and no result.
C27_BatchLoop ==
    /\ [](AscendingSoFar /\ EmptyOrEstimated(batch.encodedCalls))
    /\ [](ThrownIsAdapterError /\ ReturnedIsClean)
    /\ [][StopsAtLimit]_vars

\* the IDs 2, 9 and 10 are listed; 2 and 9 are taken, the batch with 9
\* hits the gas limit, and the batch of 2 alone is returned
C27_Witness ==
    /\ batch.pc = "returned"
    /\ batch.hasHitLimit
    /\ batch.achievementIDs = <<<<2>>, <<9>>, <<1, 0>>>>
    /\ batch.processed = <<<<2>>, <<9>>>>
    /\ batch.result = callToRequestData(<<CallOf(<<2>>)>>, 2)
(***************************************************************************)
(* Properties of the changeset check                                       *)
(***************************************************************************)
AdapterKinds == {"sources", "composites", "targets"}

\* the path reads packages/<kind>/.../src/...
AdapterSource(path) ==
    /\ Len(path) >= 7
    /\ path[1] = "packages" /\ path[2] = "/" /\ path[3] \in AdapterKinds /\ path[4] = "/"
    /\ \E k \in 5..(Len(path) - 2) :
            path[k] = "/" /\ path[k + 1] = "src" /\ path[k + 2] = "/"

\* the path is under .changeset/
UnderChangeset(path) ==
    Len(path) >= 2 /\ path[1] = ".changeset" /\ path[2] = "/"

\* the commit changes adapter source and brings no changeset
NeedsChangeset ==
    /\ \E i \in 1..Len(changeset.lines) : AdapterSource(changeset.lines[i])
    /\ ~ \E i \in 1..Len(changeset.lines) : UnderChangeset(changeset.lines[i])

\* C28: the changeset check marks the change invalid and prints the notice
\* exactly when some modified path matches packages/sources/*/src/*,
\* packages/composites/*/src/* or packages/targets/*/src/* and no modified
\* path is under .changeset/; for every other list of paths, in whatever
\* order, it prints no notice.
C28_NoticeExactly ==
    /\ changeset.pc = "exit" =>
            /\ changeset.notice <=> NeedsChangeset
            /\ changeset.is_valid_change = 0 <=> NeedsChangeset
    /\ changeset.pc # "exit" => ~changeset.notice

\* a commit that changes a target adapter's source, with a .changeset
\* directory only further down another path, gets the notice
C28_Witness ==
    /\ changeset.pc = "exit"
    /\ changeset.notice
    /\ Len(changeset.lines) = 3
    /\ changeset.lines[1] = <<"x", "/", ".changeset", "/", "a.md">>
    /\ changeset.lines[2] = <<"README.md">>
    /\ AdapterSource(changeset.lines[3])
====
